---- MODULE Spec2Model ----
(***************************************************************************)
(* Conversation orchestration of the loan-origination backend.             *)
(*                                                                         *)
(* One chat turn is api/v1/chat.py:chat: load the session from the         *)
(* in-memory store, append the caller message, run the agent graph         *)
(* (master -> one stage handler -> END), save the result, answer with the  *)
(* last assistant message.  The endpoint is a coroutine: between the load  *)
(* and the save it awaits the graph and the LLM, so several requests may   *)
(* be in flight.                                                           *)
(*                                                                         *)
(* Units: money in rupees; interest rates in hundredths of a percent       *)
(* (12.5% = 1250); risk scores in hundredths; scheme scores in tenths.     *)
(* Free text is represented by a message kind whose extraction results     *)
(* (what the handlers' regexes and keyword tests find in it) are listed in *)
(* Features.  Reply texts are represented by tags.                         *)
(***************************************************************************)
EXTENDS Integers, Sequences, FiniteSets, TLC

VARIABLES
    store,      \* _conversation_store: conversation id -> <<>> or <<serialized state>>
    req,        \* the chat() coroutines: request slot -> position and locals
    clock,      \* number of chat requests received so far (wall clock, id source)
    uw,         \* an underwriting request, and the decisions computed for it
    calc        \* an EMI calculation for two principals, and its results

vars == <<store, req, clock, uw, calc>>

(***************************************************************************)
(* Bounds of the model.                                                    *)
(***************************************************************************)
MaxTurns == 5          \* chat requests in a run of Spec
MaxConcTurns == 3      \* chat requests in a run of SpecConc
MaxSupersteps == 3     \* graph steps before the graph library gives up
MaxCoopTurns == 8
MaxSanctionTurns == 2
MaxNegTurns == 2       \* chat requests in a run of SpecNeg

ConvIds == {"c1", "c2"}
Reqs == {"r1", "r2"}

(***************************************************************************)
(* Optional values.  Python None is NoneStr for text fields, NoneInt for   *)
(* numeric fields and the empty sequence for list/dict fields.             *)
(***************************************************************************)
NoneStr == "None"
NoneInt == 0 - 1

(***************************************************************************)
(* ConversationStage(str, Enum): member names; StageValue gives the value. *)
(***************************************************************************)
GREETING == "GREETING"
NEED_ANALYSIS == "NEED_ANALYSIS"
COLLECTING_DETAILS == "COLLECTING_DETAILS"
KYC_VERIFICATION == "KYC_VERIFICATION"
OTP_VERIFICATION == "OTP_VERIFICATION"
CREDIT_CHECK == "CREDIT_CHECK"
SALARY_UPLOAD == "SALARY_UPLOAD"
UNDERWRITING == "UNDERWRITING"
DECISION == "DECISION"
SCHEME_RECOMMENDATION == "SCHEME_RECOMMENDATION"
RATE_NEGOTIATION == "RATE_NEGOTIATION"
SANCTION_LETTER == "SANCTION_LETTER"
COMPLETED == "COMPLETED"
REJECTED == "REJECTED"
ERROR == "ERROR"

ConversationStage ==
    <<GREETING, NEED_ANALYSIS, COLLECTING_DETAILS, KYC_VERIFICATION,
      OTP_VERIFICATION, CREDIT_CHECK, SALARY_UPLOAD, UNDERWRITING, DECISION,
      SCHEME_RECOMMENDATION, RATE_NEGOTIATION, SANCTION_LETTER, COMPLETED,
      REJECTED, ERROR>>

StageValue ==
    [GREETING |-> "greeting", NEED_ANALYSIS |-> "need_analysis",
     COLLECTING_DETAILS |-> "collecting_details",
     KYC_VERIFICATION |-> "kyc_verification",
     OTP_VERIFICATION |-> "otp_verification", CREDIT_CHECK |-> "credit_check",
     SALARY_UPLOAD |-> "salary_upload", UNDERWRITING |-> "underwriting",
     DECISION |-> "decision",
     SCHEME_RECOMMENDATION |-> "scheme_recommendation",
     RATE_NEGOTIATION |-> "rate_negotiation",
     SANCTION_LETTER |-> "sanction_letter", COMPLETED |-> "completed",
     REJECTED |-> "rejected", ERROR |-> "error"]

\* ConversationStage(value): the member with that value, ValueError otherwise
StageByValue(v) ==
    LET hits == {i \in 1..Len(ConversationStage) : StageValue[ConversationStage[i]] = v}
    IN  IF hits = {} THEN "ValueError" ELSE ConversationStage[CHOOSE i \in hits : TRUE]

\* AgentType(str, Enum): member name -> value
AgentTypeValue ==
    [MASTER |-> "master", SALES |-> "sales", VERIFICATION |-> "verification",
     UNDERWRITING |-> "underwriting", SCHEME |-> "scheme",
     NEGOTIATION |-> "negotiation", SANCTION |-> "sanction"]

AgentTypeByValue(v) ==
    LET hits == {n \in DOMAIN AgentTypeValue : AgentTypeValue[n] = v}
    IN  IF hits = {} THEN "ValueError" ELSE CHOOSE n \in hits : TRUE

(***************************************************************************)
(* Messages.  In memory a message has a type, a content and an id (0 is    *)
(* id=None); the store keeps type and content only.                        *)
(***************************************************************************)
HumanMessage(content) == [type |-> "HumanMessage", content |-> content, id |-> 0]
AIMessage(content) == [type |-> "AIMessage", content |-> content, id |-> 0]

(***************************************************************************)
(* What the handlers extract from a caller message.  Each kind stands for  *)
(* the sample text in its comment.                                         *)
(*   loan_kw      any of the sales loan keywords occurs                    *)
(*   amount       _extract_loan_info amount (NoneInt: none in range)       *)
(*   tenure       _extract_loan_info tenure in months                      *)
(*   phone, name  _extract_loan_info phone / "i am X" name                 *)
(*   bare_name    the whole message looks like a name                      *)
(*   purpose      first matching purpose keyword group                     *)
(*   pan          _extract_pan                                             *)
(*   digits       the digits of the message, concatenated                  *)
(*   otp_kw       an OTP auto-accept keyword occurs                        *)
(*   accept_kw, negotiate_kw   negotiation keyword sets                    *)
(*   ordinal      1..3 when the message is exactly "1"/"one"/..., else 0   *)
(***************************************************************************)
NoFeatures ==
    [loan_kw |-> FALSE, amount |-> NoneInt, tenure |-> NoneInt,
     phone |-> NoneStr, name |-> NoneStr, bare_name |-> NoneStr,
     purpose |-> NoneStr, pan |-> NoneStr, digits |-> "",
     otp_kw |-> FALSE, accept_kw |-> FALSE, negotiate_kw |-> FALSE,
     ordinal |-> 0]

Features ==
    [ \* "" : no caller message in the transcript
      none |-> NoFeatures,
      \* "hello"
      hello |-> NoFeatures,
      \* "i want a loan"
      want |-> [NoFeatures EXCEPT !.loan_kw = TRUE],
      \* "i need a loan of 150000"
      loan |-> [NoFeatures EXCEPT !.loan_kw = TRUE, !.amount = 150000,
                                  !.digits = "150000"],
      \* "i need a loan of 250000 for 24 months, i am John Smith, 9876543210"
      loan_all |-> [NoFeatures EXCEPT !.loan_kw = TRUE, !.amount = 250000,
                                      !.tenure = 24, !.name = "John Smith",
                                      !.phone = "9876543210",
                                      !.digits = "250000249876543210"],
      \* "my name is John Smith, 9876543210"
      details |-> [NoFeatures EXCEPT !.name = "John Smith",
                                     !.phone = "9876543210",
                                     !.digits = "9876543210"],
      \* "24 months"
      tenure |-> [NoFeatures EXCEPT !.tenure = 24, !.digits = "24"],
      \* "ABCDE1234F"
      pan |-> [NoFeatures EXCEPT !.pan = "ABCDE1234F", !.digits = "1234"],
      \* "yes"
      yes |-> [NoFeatures EXCEPT !.otp_kw = TRUE, !.accept_kw = TRUE],
      \* "111111": six digits, also a plain-number amount for the sales regexes
      otp6 |-> [NoFeatures EXCEPT !.digits = "111111", !.amount = 111111],
      \* "negotiate"
      negotiate |-> [NoFeatures EXCEPT !.negotiate_kw = TRUE],
      \* "ok, but a better rate"
      both |-> [NoFeatures EXCEPT !.otp_kw = TRUE, !.accept_kw = TRUE,
                                  !.negotiate_kw = TRUE],
      \* "1", "2", "3"
      one |-> [NoFeatures EXCEPT !.ordinal = 1, !.digits = "1"],
      two |-> [NoFeatures EXCEPT !.ordinal = 2, !.digits = "2"],
      three |-> [NoFeatures EXCEPT !.ordinal = 3, !.digits = "3"] ]

\* caller messages drawn in Spec and in SpecConc
Msgs == {"want", "loan", "loan_all", "pan", "yes"}
ConcMsgs == {"hello", "loan_all"}

(***************************************************************************)
(* Session state (agents/state.py).                                        *)
(***************************************************************************)
create_initial_state(conversation_id) ==
    [messages |-> <<>>,
     conversation_id |-> conversation_id,
     stage |-> GREETING,
     current_agent |-> "MASTER",
     customer_id |-> NoneStr,
     customer_phone |-> NoneStr,
     customer_name |-> NoneStr,
     customer_pan |-> NoneStr,
     customer_email |-> NoneStr,
     application_id |-> NoneInt,
     loan_amount |-> NoneInt,
     tenure_months |-> NoneInt,
     loan_purpose |-> NoneStr,
     kyc_verified |-> FALSE,
     kyc_data |-> <<>>,
     otp_code |-> NoneStr,
     otp_verified |-> FALSE,
     credit_score |-> NoneInt,
     pre_approved_limit |-> NoneInt,
     credit_data |-> <<>>,
     salary_verified |-> FALSE,
     monthly_salary |-> NoneInt,
     salary_slip_url |-> NoneStr,
     decision |-> NoneStr,
     decision_reason |-> NoneStr,
     approved_amount |-> NoneInt,
     emi |-> NoneInt,
     interest_rate |-> NoneInt,
     risk_score |-> NoneInt,
     risk_flags |-> <<>>,
     rate_negotiation_attempts |-> 0,
     final_interest_rate |-> NoneInt,
     scheme_recommendations |-> <<>>,
     selected_scheme |-> <<>>,
     sanction_id |-> NoneInt,
     sanction_letter_url |-> NoneInt,
     error |-> NoneStr,
     retry_count |-> 0,
     updated_at |-> NoneInt]

\* the fields of AgentState other than the transcript and the timestamp
DataFields == (DOMAIN create_initial_state("c1")) \ {"messages", "updated_at"}

(***************************************************************************)
(* services/conversation_manager.py                                        *)
(***************************************************************************)
_serialize_state(state) ==
    [state EXCEPT
        !.messages = [i \in 1..Len(state.messages) |->
                        [type |-> state.messages[i].type,
                         content |-> state.messages[i].content]],
        !.stage = StageValue[state.stage],
        !.current_agent = IF state.current_agent # NoneStr
                          THEN AgentTypeValue[state.current_agent]
                          ELSE NoneStr]

\* variant: every stored message is read back as a caller message
_deserialize_state_all_human(data) ==
    [data EXCEPT
        !.messages = [i \in 1..Len(data.messages) |->
                        [type |-> "HumanMessage",
                         content |-> data.messages[i].content,
                         id |-> 0]],
        !.stage = IF StageByValue(data.stage) = "ValueError"
                  THEN GREETING ELSE StageByValue(data.stage),
        !.current_agent = IF data.current_agent = NoneStr
                             \/ AgentTypeByValue(data.current_agent) = "ValueError"
                          THEN NoneStr
                          ELSE AgentTypeByValue(data.current_agent)]

_deserialize_state(data) ==
    [data EXCEPT
        !.messages = [i \in 1..Len(data.messages) |->
                        [type |-> data.messages[i].type,
                         content |-> data.messages[i].content,
                         id |-> 0]],
        !.stage = IF StageByValue(data.stage) = "ValueError"
                  THEN GREETING ELSE StageByValue(data.stage),
        !.current_agent = IF data.current_agent = NoneStr
                             \/ AgentTypeByValue(data.current_agent) = "ValueError"
                          THEN NoneStr
                          ELSE AgentTypeByValue(data.current_agent)]

\* variant: one slot shared by all conversations
save_state_shared_slot(st, state) ==
    IF state.conversation_id = NoneStr
    THEN st
    ELSE [c \in DOMAIN st |-> <<_serialize_state(state)>>]

\* the store after save_state(state): one key is written, the state's own id
save_state(st, state) ==
    IF state.conversation_id = NoneStr
    THEN st
    ELSE [st EXCEPT ![state.conversation_id] = <<_serialize_state(state)>>]

\* get_state: None (here <<>>) when the id is not in the store
get_state(st, conversation_id) ==
    IF st[conversation_id] = <<>>
    THEN <<>>
    ELSE <<_deserialize_state(st[conversation_id][1])>>

\* variant: the message list is replaced instead of extended
add_user_message_replacing(state, content, now) ==
    [state EXCEPT !.messages = <<HumanMessage(content)>>,
                  !.updated_at = now]

add_user_message(state, content, now) ==
    [state EXCEPT !.messages = Append(state.messages, HumanMessage(content)),
                  !.updated_at = now]

(***************************************************************************)
(* services/financial_utils.py.  The float arithmetic is carried out in    *)
(* fixed point: FP is the scale of (1 + monthly_rate) ** months, EmiScale  *)
(* the scale of the EMI of one currency unit.  Rates are in hundredths of  *)
(* a percent, so monthly_rate = annual_rate / 120000.                      *)
(***************************************************************************)
FP == 100000000
EmiScale == 500000000

\* <<quotient, remainder>> of (qa * c + ra) * b + (q * c + r) by c, for
\* non-negative qa and q, ra < c and r < c, without forming the product
RECURSIVE muldiv(_, _, _, _, _, _)
muldiv(qa, ra, b, c, q, r) ==
    IF b = 0 \/ qa < 0 \/ q < 0 \/ ra >= c \/ r >= c THEN <<q, r>>
    ELSE muldiv(2 * qa + (2 * ra) \div c, (2 * ra) % c, b \div 2, c,
                IF b % 2 = 1 THEN q + qa + (r + ra) \div c ELSE q,
                IF b % 2 = 1 THEN (r + ra) % c ELSE r)

\* int(a * b / c)
MulDiv(a, b, c) == muldiv(a \div c, a % c, b, c, 0, 0)[1]

\* a * b / c to the nearest integer
rounded(qr, c) == IF 2 * qr[2] >= c THEN qr[1] + 1 ELSE qr[1]
MulDivRound(a, b, c) == rounded(muldiv(a \div c, a % c, b, c, 0, 0), c)

\* (1 + monthly_rate) ** months
RECURSIVE emi_factor(_, _, _)
emi_factor(annual_rate, months, f) ==
    IF months = 0 \/ f < FP THEN f
    ELSE emi_factor(annual_rate, months - 1, f + MulDivRound(f, annual_rate, 120000))

\* monthly_rate * emi_factor / (emi_factor - 1): the EMI of one currency unit
unit_emi(annual_rate, f) == MulDiv(f, annual_rate * 12500, f - FP) \div 3

\* variant: the EMI cut down to whole hundreds
calculate_emi_in_hundreds(principal, annual_rate, months) ==
    IF annual_rate = 0
    THEN ((principal \div months) \div 100) * 100
    ELSE (MulDiv(unit_emi(annual_rate, emi_factor(annual_rate, months, FP)),
                 principal, EmiScale) \div 100) * 100

calculate_emi(principal, annual_rate, months) ==
    IF annual_rate = 0
    THEN principal \div months
    ELSE MulDiv(unit_emi(annual_rate, emi_factor(annual_rate, months, FP)),
                principal, EmiScale)

calculate_max_loan(max_emi, annual_rate, months) ==
    IF annual_rate = 0
    THEN max_emi * months
    ELSE (MulDiv(max_emi, EmiScale,
                 unit_emi(annual_rate, emi_factor(annual_rate, months, FP))) \div 1000) * 1000

Min2(a, b) == IF a < b THEN a ELSE b
Max2(a, b) == IF a > b THEN a ELSE b

calculate_interest_rate(credit_score, base_rate) ==
    IF credit_score >= 800 THEN base_rate - 200
    ELSE IF credit_score >= 750 THEN base_rate - 100
    ELSE IF credit_score >= 700 THEN base_rate
    ELSE base_rate + 200

\* config.py settings
credit_score_threshold == 700
max_emi_to_salary_ratio == 50      \* percent
default_interest_rate == 1250

(***************************************************************************)
(* Results of a handler: either the returned state or a raised exception.  *)
(***************************************************************************)
Ok(state) == [raised |-> FALSE, exc |-> NoneStr, state |-> state]
Raise(exc, state) == [raised |-> TRUE, exc |-> exc, state |-> state]

\* "for msg in reversed(state['messages']): if isinstance(msg, HumanMessage)"
LastUserMessage(state) ==
    LET idx == {i \in 1..Len(state.messages) : state.messages[i].type = "HumanMessage"}
    IN  IF idx = {} THEN "none"
        ELSE state.messages[CHOOSE i \in idx : \A j \in idx : j <= i].content

\* "new_state['messages'] = state['messages'] + [AIMessage(content=response)]"
Reply(new_state, state, response) ==
    [new_state EXCEPT !.messages = Append(state.messages, AIMessage(response))]

(***************************************************************************)
(* agents/sales_agent.py                                                   *)
(***************************************************************************)
_extract_loan_info(message, state) ==
    LET f == Features[message]
    IN  [name |-> IF f.name # NoneStr THEN f.name
                  ELSE IF state.customer_name = NoneStr THEN f.bare_name
                  ELSE NoneStr,
         phone |-> f.phone,
         amount |-> f.amount,
         tenure |-> f.tenure,
         purpose |-> f.purpose]

_update_state_with_extraction(state, extracted) ==
    [state EXCEPT
        !.customer_name = IF extracted.name # NoneStr THEN extracted.name ELSE @,
        !.customer_phone = IF extracted.phone # NoneStr THEN extracted.phone ELSE @,
        !.loan_amount = IF extracted.amount # NoneInt /\ extracted.amount # 0
                        THEN extracted.amount ELSE @,
        !.tenure_months = IF extracted.tenure # NoneInt /\ extracted.tenure # 0
                          THEN extracted.tenure ELSE @,
        !.loan_purpose = IF extracted.purpose # NoneStr THEN extracted.purpose ELSE @]

\* variant: the two partial-information outcomes exchanged
_determine_next_stage_exchanged(state) ==
    LET has_name == state.customer_name # NoneStr
        has_phone == state.customer_phone # NoneStr
        has_amount == state.loan_amount # NoneInt /\ state.loan_amount # 0
    IN  IF has_name /\ has_phone /\ has_amount THEN KYC_VERIFICATION
        ELSE IF has_amount THEN NEED_ANALYSIS
        ELSE COLLECTING_DETAILS

_determine_next_stage(state) ==
    LET has_name == state.customer_name # NoneStr
        has_phone == state.customer_phone # NoneStr
        has_amount == state.loan_amount # NoneInt /\ state.loan_amount # 0
    IN  IF has_name /\ has_phone /\ has_amount THEN KYC_VERIFICATION
        ELSE IF has_amount THEN COLLECTING_DETAILS
        ELSE NEED_ANALYSIS

sales_agent(state, env) ==
    LET last_user_message == LastUserMessage(state)
        is_loan_inquiry == Features[last_user_message].loan_kw
        extracted == _extract_loan_info(last_user_message, state)
        updated == _update_state_with_extraction(state, extracted)
        next_stage == _determine_next_stage(updated)
        new_state ==
            IF state.stage = GREETING
            THEN IF is_loan_inquiry
                 THEN Reply([updated EXCEPT !.stage = next_stage], state, "sales_reply")
                 ELSE Reply([state EXCEPT !.stage = GREETING], state, "sales_welcome")
            ELSE Reply([updated EXCEPT
                          !.application_id =
                              IF next_stage = KYC_VERIFICATION
                                 /\ (@ = NoneInt \/ @ = 0)
                              THEN env.fresh ELSE @,
                          !.stage = next_stage],
                       state, "sales_reply")
    IN  Ok([new_state EXCEPT !.current_agent = "SALES"])

(***************************************************************************)
(* agents/verification_agent.py                                            *)
(***************************************************************************)
_extract_pan(message) == Features[message].pan

\* always succeeds: a customer of the mock CRM, or a demo profile
_verify_customer(pan, profile) ==
    [success |-> TRUE,
     customer_id |-> profile.customer_id,
     pre_approved_limit |-> profile.pre_approved_limit,
     credit_score |-> profile.credit_score]

\* variant: six digits are accepted only when they are the stored code
_handle_otp_verification_strict(new_state, user_message, state) ==
    LET stored_otp == state.otp_code
        user_otp == Features[user_message].digits
        should_auto_accept == Features[user_message].otp_kw
        accepted == \/ (Len(user_otp) = 6 /\ user_otp = stored_otp)
                    \/ should_auto_accept
        out == IF accepted
               THEN Reply([new_state EXCEPT !.otp_verified = TRUE,
                                            !.kyc_verified = TRUE,
                                            !.stage = CREDIT_CHECK],
                          state, "otp_verified")
               ELSE Reply([new_state EXCEPT !.stage = OTP_VERIFICATION],
                          state, "otp_retry")
    IN  IF accepted /\ (new_state.pre_approved_limit = NoneInt)
        THEN Raise("TypeError", state)
        ELSE Ok([out EXCEPT !.current_agent = "VERIFICATION"])

_handle_otp_verification(new_state, user_message, state) ==
    LET stored_otp == state.otp_code
        user_otp == Features[user_message].digits
        should_auto_accept == Features[user_message].otp_kw
        accepted == \/ (Len(user_otp) = 6 /\ user_otp = stored_otp)
                    \/ should_auto_accept
                    \/ Len(user_otp) = 6
        out == IF accepted
               THEN Reply([new_state EXCEPT !.otp_verified = TRUE,
                                            !.kyc_verified = TRUE,
                                            !.stage = CREDIT_CHECK],
                          state, "otp_verified")
               ELSE Reply([new_state EXCEPT !.stage = OTP_VERIFICATION],
                          state, "otp_retry")
    IN  IF accepted /\ (new_state.pre_approved_limit = NoneInt)
        THEN Raise("TypeError", state)      \* f"{pre_approved:,}" of None
        ELSE Ok([out EXCEPT !.current_agent = "VERIFICATION"])

\* variant: a verified PAN goes straight on to the credit check
verification_agent_skipping_otp(state, env) ==
    LET last_user_message == LastUserMessage(state)
        pan == _extract_pan(last_user_message)
        verification_result == _verify_customer(pan, env.profile)
    IN  IF state.stage = OTP_VERIFICATION
        THEN _handle_otp_verification(state, last_user_message, state)
        ELSE IF pan # NoneStr
        THEN IF state.customer_phone = NoneStr
             THEN Raise("TypeError", state)
             ELSE Ok([Reply([state EXCEPT
                               !.customer_pan = pan,
                               !.customer_id = verification_result.customer_id,
                               !.pre_approved_limit = verification_result.pre_approved_limit,
                               !.credit_score = verification_result.credit_score,
                               !.otp_code = env.otp,
                               !.otp_verified = FALSE,
                               !.stage = CREDIT_CHECK],
                            state, "pan_verified_otp_sent")
                      EXCEPT !.current_agent = "VERIFICATION"])
        ELSE Ok([Reply([state EXCEPT !.stage = KYC_VERIFICATION],
                       state, "ask_pan")
                 EXCEPT !.current_agent = "VERIFICATION"])

verification_agent(state, env) ==
    LET last_user_message == LastUserMessage(state)
        pan == _extract_pan(last_user_message)
        verification_result == _verify_customer(pan, env.profile)
    IN  IF state.stage = OTP_VERIFICATION
        THEN _handle_otp_verification(state, last_user_message, state)
        ELSE IF pan # NoneStr
        THEN IF verification_result.success
             THEN IF state.customer_phone = NoneStr
                  THEN Raise("TypeError", state)    \* len(phone) of None
                  ELSE Ok([Reply([state EXCEPT
                                    !.customer_pan = pan,
                                    !.customer_id = verification_result.customer_id,
                                    !.pre_approved_limit = verification_result.pre_approved_limit,
                                    !.credit_score = verification_result.credit_score,
                                    !.otp_code = env.otp,
                                    !.otp_verified = FALSE,
                                    !.stage = OTP_VERIFICATION],
                                 state, "pan_verified_otp_sent")
                           EXCEPT !.current_agent = "VERIFICATION"])
             ELSE Ok([Reply([state EXCEPT !.customer_pan = pan,
                                          !.kyc_verified = FALSE,
                                          !.stage = KYC_VERIFICATION],
                            state, "verification_failed")
                      EXCEPT !.current_agent = "VERIFICATION"])
        ELSE Ok([Reply([state EXCEPT !.stage = KYC_VERIFICATION],
                       state, "ask_pan")
                 EXCEPT !.current_agent = "VERIFICATION"])

(***************************************************************************)
(* agents/underwriting_agent.py                                            *)
(***************************************************************************)
Decided(decision, approved_amount, interest_rate, emi, reason, risk_score, risk_flags) ==
    [raised |-> FALSE, decision |-> decision, approved_amount |-> approved_amount,
     interest_rate |-> interest_rate, emi |-> emi, reason |-> reason,
     risk_score |-> risk_score, risk_flags |-> risk_flags]

EvalRaises ==
    [raised |-> TRUE, decision |-> NoneStr, approved_amount |-> NoneInt,
     interest_rate |-> NoneInt, emi |-> NoneInt, reason |-> "TypeError",
     risk_score |-> NoneInt, risk_flags |-> <<>>]

_evaluate_application(loan_amount, tenure_months, credit_score, pre_approved_limit, monthly_salary, salary_verified) ==
    LET min_credit_score == credit_score_threshold
        interest_rate == calculate_interest_rate(credit_score, default_interest_rate)
        emi == calculate_emi(loan_amount, interest_rate, tenure_months)
        max_emi_ratio == max_emi_to_salary_ratio
        \* emi / monthly_salary > max_emi_ratio, the ratio being 1 without salary
        ratio_exceeded == IF monthly_salary > 0
                          THEN emi * 100 > max_emi_ratio * monthly_salary
                          ELSE 100 > max_emi_ratio
        max_affordable_emi == (monthly_salary * max_emi_ratio) \div 100
        max_loan == calculate_max_loan(max_affordable_emi, interest_rate, tenure_months)
        reduced_emi == calculate_emi(max_loan, interest_rate, tenure_months)
    IN  IF credit_score = NoneInt THEN EvalRaises        \* None < int
        ELSE IF credit_score < min_credit_score
        THEN Decided("REJECTED", NoneInt, NoneInt, NoneInt, "credit_score_below_threshold",
                     90, <<"LOW_CREDIT_SCORE">>)
        ELSE IF tenure_months = NoneInt \/ loan_amount = NoneInt
        THEN EvalRaises                                   \* float ** None, None * float
        ELSE IF pre_approved_limit = NoneInt THEN EvalRaises   \* int <= None
        ELSE IF loan_amount <= pre_approved_limit
        THEN Decided("APPROVED", loan_amount, interest_rate, emi,
                     "within_pre_approved_limit", 20, <<>>)
        ELSE IF loan_amount > 2 * pre_approved_limit
        THEN Decided("REJECTED", NoneInt, NoneInt, NoneInt, "exceeds_maximum_eligible",
                     85, <<"EXCEEDS_MAX_LIMIT">>)
        ELSE IF ~salary_verified \/ monthly_salary = 0
        THEN Decided("MANUAL_REVIEW", NoneInt, NoneInt, NoneInt, "salary_verification_required",
                     50, <<"SALARY_NOT_VERIFIED">>)
        ELSE IF monthly_salary = NoneInt THEN EvalRaises   \* None > 0
        ELSE IF ratio_exceeded /\ max_loan < loan_amount
        THEN Decided("APPROVED", max_loan, interest_rate, reduced_emi,
                     "reduced_amount_emi_affordability", 40, <<"HIGH_EMI_RATIO">>)
        ELSE Decided("APPROVED", loan_amount, interest_rate, emi,
                     "all_criteria_met", 25,
                     IF ratio_exceeded THEN <<"HIGH_EMI_RATIO">> ELSE <<>>)

\* variant: approved_amount copied from the result with a default of 0,
\* whatever the decision
underwriting_agent_amount_default(state, env) ==
    LET result == _evaluate_application(state.loan_amount, state.tenure_months,
                                        state.credit_score, state.pre_approved_limit,
                                        state.monthly_salary, state.salary_verified)
        decided == [state EXCEPT !.decision = result.decision,
                                 !.decision_reason = result.reason,
                                 !.risk_score = result.risk_score,
                                 !.risk_flags = result.risk_flags,
                                 !.approved_amount =
                                     IF result.approved_amount = NoneInt
                                     THEN 0 ELSE result.approved_amount]
        new_state ==
            IF result.decision = "APPROVED"
            THEN Reply([decided EXCEPT !.interest_rate = result.interest_rate,
                                       !.emi = result.emi,
                                       !.stage = DECISION],
                       state, "uw_approved")
            ELSE IF result.decision = "REJECTED"
            THEN Reply([decided EXCEPT !.stage = REJECTED], state, "uw_rejected")
            ELSE Reply([decided EXCEPT !.stage = UNDERWRITING], state, "uw_manual_review")
    IN  IF result.raised
        THEN Raise(result.reason, state)
        ELSE Ok([new_state EXCEPT !.current_agent = "UNDERWRITING"])

\* variant: a manual review sends the session to the salary upload
underwriting_agent_asking_salary(state, env) ==
    LET result == _evaluate_application(state.loan_amount, state.tenure_months,
                                        state.credit_score, state.pre_approved_limit,
                                        state.monthly_salary, state.salary_verified)
        decided == [state EXCEPT !.decision = result.decision,
                                 !.decision_reason = result.reason,
                                 !.risk_score = result.risk_score,
                                 !.risk_flags = result.risk_flags]
        new_state ==
            IF result.decision = "APPROVED"
            THEN Reply([decided EXCEPT !.approved_amount = result.approved_amount,
                                       !.interest_rate = result.interest_rate,
                                       !.emi = result.emi,
                                       !.stage = DECISION],
                       state, "uw_approved")
            ELSE IF result.decision = "REJECTED"
            THEN Reply([decided EXCEPT !.stage = REJECTED], state, "uw_rejected")
            ELSE Reply([decided EXCEPT !.stage = SALARY_UPLOAD], state, "uw_manual_review")
    IN  IF result.raised
        THEN Raise(result.reason, state)
        ELSE Ok([new_state EXCEPT !.current_agent = "UNDERWRITING"])

underwriting_agent(state, env) ==
    LET result == _evaluate_application(state.loan_amount, state.tenure_months,
                                        state.credit_score, state.pre_approved_limit,
                                        state.monthly_salary, state.salary_verified)
        decided == [state EXCEPT !.decision = result.decision,
                                 !.decision_reason = result.reason,
                                 !.risk_score = result.risk_score,
                                 !.risk_flags = result.risk_flags]
        new_state ==
            IF result.decision = "APPROVED"
            THEN Reply([decided EXCEPT !.approved_amount = result.approved_amount,
                                       !.interest_rate = result.interest_rate,
                                       !.emi = result.emi,
                                       !.stage = DECISION],
                       state, "uw_approved")
            ELSE IF result.decision = "REJECTED"
            THEN Reply([decided EXCEPT !.stage = REJECTED], state, "uw_rejected")
            ELSE Reply([decided EXCEPT !.stage = UNDERWRITING], state, "uw_manual_review")
    IN  IF result.raised
        THEN Raise(result.reason, state)
        ELSE Ok([new_state EXCEPT !.current_agent = "UNDERWRITING"])

(***************************************************************************)
(* services/underwriting_engine.py: UnderwritingEngine.  Rates are in      *)
(* hundredths of a percent, the risk score in hundredths.                  *)
(***************************************************************************)
UnderwritingResponse(decision, approved_amount, interest_rate, emi, risk_score, risk_flags, decision_reason) ==
    [decision |-> decision, approved_amount |-> approved_amount,
     interest_rate |-> interest_rate, emi |-> emi, risk_score |-> risk_score,
     risk_flags |-> risk_flags, decision_reason |-> decision_reason]

\* variant: a score one point under the threshold passes
_check_credit_score_lenient(score) == score >= credit_score_threshold - 1

\* RuleEngineResult.passed of the rule
_check_credit_score(score) == score >= credit_score_threshold

_check_pre_approved_limit(amount, limit) == amount <= limit

_check_emi_affordability(emi, salary, existing_emi) ==
    IF salary <= 0 THEN FALSE
    ELSE (emi + existing_emi) * 100 <= max_emi_to_salary_ratio * salary

_calculate_interest_rate(credit_score) ==
    IF credit_score >= 800 THEN default_interest_rate - 200
    ELSE IF credit_score >= 750 THEN default_interest_rate - 100
    ELSE IF credit_score >= 700 THEN default_interest_rate
    ELSE default_interest_rate + 200

_calculate_emi(principal, annual_rate, months) ==
    calculate_emi(principal, annual_rate, months)

\* int() truncates towards zero
_calculate_max_loan(max_emi, annual_rate, months) ==
    IF max_emi >= 0
    THEN calculate_max_loan(max_emi, annual_rate, months)
    ELSE 0 - calculate_max_loan(0 - max_emi, annual_rate, months)

_calculate_risk_score(request) ==
    LET credit == IF request.credit_score >= 800 THEN 0 - 10
                  ELSE IF request.credit_score >= 750 THEN 0 - 5
                  ELSE IF request.credit_score < 700 THEN 20
                  ELSE 0
        lti == IF request.monthly_salary > 0
               THEN IF request.requested_amount > 2 * request.monthly_salary * 12 THEN 15
                    ELSE IF request.requested_amount < request.monthly_salary * 12
                    THEN 0 - 5
                    ELSE 0
               ELSE 0
        pa == IF request.pre_approved_limit > 0
              THEN IF 2 * request.requested_amount > 3 * request.pre_approved_limit THEN 10
                   ELSE IF request.requested_amount <= request.pre_approved_limit
                   THEN 0 - 5
                   ELSE 0
              ELSE 0
    IN  Max2(10, Min2(90, 30 + credit + lti + pa))

Determined(decision, approved_amount, emi, reason, flags) ==
    [decision |-> decision, approved_amount |-> approved_amount, emi |-> emi,
     reason |-> reason, flags |-> flags]

\* evaluate, the reduced amount of lines 116-128
reduced_amount(request, interest_rate, max_loan) ==
    IF 2 * max_loan >= request.requested_amount
    THEN Determined("APPROVED", max_loan,
                    _calculate_emi(max_loan, interest_rate, request.tenure_months),
                    "reduced_amount_emi_affordability", <<>>)
    ELSE Determined("REJECTED", NoneInt, NoneInt, "insufficient_repayment_capacity", <<>>)

\* variant: the ceiling is reached at twice the limit
determine_approved_amount_strict(request, interest_rate, emi, limit_passed, emi_passed) ==
    IF limit_passed /\ emi_passed
    THEN Determined("APPROVED", request.requested_amount, emi, "all_criteria_met", <<>>)
    ELSE IF limit_passed
    THEN reduced_amount(request, interest_rate,
             _calculate_max_loan(
                 (request.monthly_salary * max_emi_to_salary_ratio) \div 100
                     - request.existing_emi,
                 interest_rate, request.tenure_months))
    ELSE IF request.requested_amount < 2 * request.pre_approved_limit
    THEN Determined("MANUAL_REVIEW", NoneInt, NoneInt, "manual_review_exceeds_limit", <<>>)
    ELSE Determined("REJECTED", NoneInt, NoneInt, "exceeds_maximum_eligible",
                    <<"EXCEEDS_MAX_LIMIT">>)

\* evaluate, "Determine approved amount" (lines 110-139)
determine_approved_amount(request, interest_rate, emi, limit_passed, emi_passed) ==
    IF limit_passed /\ emi_passed
    THEN Determined("APPROVED", request.requested_amount, emi, "all_criteria_met", <<>>)
    ELSE IF limit_passed
    THEN reduced_amount(request, interest_rate,
             _calculate_max_loan(
                 (request.monthly_salary * max_emi_to_salary_ratio) \div 100
                     - request.existing_emi,
                 interest_rate, request.tenure_months))
    ELSE IF request.requested_amount <= 2 * request.pre_approved_limit
    THEN Determined("MANUAL_REVIEW", NoneInt, NoneInt, "manual_review_exceeds_limit", <<>>)
    ELSE Determined("REJECTED", NoneInt, NoneInt, "exceeds_maximum_eligible",
                    <<"EXCEEDS_MAX_LIMIT">>)

\* evaluate, lines 141-156: the response for what was determined
respond(request, interest_rate, emi_passed, determined) ==
    UnderwritingResponse(
        determined.decision,
        determined.approved_amount,
        IF determined.decision = "APPROVED" THEN interest_rate ELSE NoneInt,
        IF determined.decision = "APPROVED" THEN determined.emi ELSE NoneInt,
        _calculate_risk_score(request),
        (IF emi_passed THEN <<>> ELSE <<"HIGH_EMI_RATIO">>) \o determined.flags,
        determined.reason)

\* evaluate, lines 99-139: rule 3 and the decision
evaluate_affordability(request, interest_rate, emi, limit_passed, emi_passed) ==
    respond(request, interest_rate, emi_passed,
            determine_approved_amount(request, interest_rate, emi, limit_passed, emi_passed))

\* evaluate, lines 92-105: the EMI of the requested amount
evaluate_emi(request, interest_rate, emi) ==
    evaluate_affordability(request, interest_rate, emi,
        _check_pre_approved_limit(request.requested_amount, request.pre_approved_limit),
        _check_emi_affordability(emi, request.monthly_salary, request.existing_emi))

\* evaluate, lines 82-97: the rate of the credit score
evaluate_rate(request, interest_rate) ==
    evaluate_emi(request, interest_rate,
        _calculate_emi(request.requested_amount, interest_rate, request.tenure_months))

evaluate(request) ==
    IF ~_check_credit_score(request.credit_score)
    THEN UnderwritingResponse("REJECTED", NoneInt, NoneInt, NoneInt, NoneInt,
                              <<"LOW_CREDIT_SCORE">>, "credit_score_below_threshold")
    ELSE evaluate_rate(request, _calculate_interest_rate(request.credit_score))

(***************************************************************************)
(* mock_data/loan_schemes.py: the catalog, in catalog order.               *)
(***************************************************************************)
Scheme(id, bank, name, bank_type, rmin, rmax, amin, amax, tmin, tmax, cmin, imin, agemin, agemax, employment, fee_percent, fee_flat, offers, purposes, notes, active) ==
    [scheme_id |-> id, bank_name |-> bank, scheme_name |-> name, bank_type |-> bank_type,
     interest_rate_min |-> rmin, interest_rate_max |-> rmax,
     min_loan_amount |-> amin, max_loan_amount |-> amax,
     min_tenure_months |-> tmin, max_tenure_months |-> tmax,
     min_credit_score |-> cmin, min_monthly_income |-> imin,
     min_age |-> agemin, max_age |-> agemax, eligible_employment |-> employment,
     processing_fee_percent |-> fee_percent,     \* hundredths of a percent
     processing_fee_flat |-> fee_flat,           \* NoneInt: the percentage applies
     special_offers |-> offers,                  \* number of offers
     target_purposes |-> purposes,
     risk_notes |-> notes,                       \* number of notes
     is_active |-> active]

LOAN_SCHEMES ==
    <<Scheme("HDFC_SMART_01", "HDFC Bank", "Smart Personal Loan", "bank",
             1050, 1400, 50000, 4000000, 12, 60, 750, 25000, 21, 60,
             {"salaried", "self_employed", "professional"}, 0, NoneInt, 3,
             {"wedding", "home_renovation", "travel", "personal"}, 0, TRUE),
      Scheme("SBI_XPRESS_01", "State Bank of India", "Xpress Credit", "bank",
             1000, 1250, 25000, 2000000, 12, 72, 680, 15000, 21, 65,
             {"salaried"}, 100, NoneInt, 3,
             {"medical", "education", "wedding", "emergency"}, 1, TRUE),
      Scheme("ICICI_INSTANT_01", "ICICI Bank", "Instant Personal Loan", "bank",
             1100, 1500, 50000, 2500000, 12, 60, 700, 20000, 23, 58,
             {"salaried", "self_employed"}, 200, NoneInt, 3,
             {"personal", "travel", "home_renovation"}, 1, TRUE),
      Scheme("AXIS_EXPRESS_01", "Axis Bank", "Express Personal Loan", "bank",
             1150, 1600, 50000, 1500000, 12, 60, 650, 15000, 21, 60,
             {"salaried", "self_employed", "business"}, 150, NoneInt, 3,
             {"wedding", "personal", "debt_consolidation"}, 0, TRUE),
      Scheme("BAJAJ_FLEXI_01", "Bajaj Finserv", "Flexi Personal Loan", "nbfc",
             1200, 1700, 100000, 3500000, 12, 60, 720, 25000, 25, 55,
             {"salaried", "self_employed", "professional"}, 0, 4999, 3,
             {"business", "wedding", "home_renovation"}, 1, TRUE),
      Scheme("KOTAK_PRIME_01", "Kotak Mahindra Bank", "Prime Personal Loan", "bank",
             1075, 1450, 75000, 3000000, 12, 60, 725, 30000, 21, 58,
             {"salaried"}, 250, NoneInt, 3,
             {"travel", "wedding", "personal"}, 1, TRUE),
      Scheme("TATA_VALUE_01", "Tata Capital", "Value Personal Loan", "nbfc",
             1150, 1800, 50000, 2500000, 12, 72, 650, 18000, 21, 60,
             {"salaried", "self_employed", "business"}, 150, NoneInt, 3,
             {"medical", "education", "emergency", "wedding"}, 1, TRUE),
      Scheme("IDFC_DIGITAL_01", "IDFC First Bank", "Digital Personal Loan", "bank",
             1049, 1500, 20000, 1000000, 6, 48, 700, 20000, 23, 55,
             {"salaried"}, 0, 999, 3,
             {"personal", "travel", "emergency"}, 2, TRUE),
      Scheme("INDUS_FLEX_01", "IndusInd Bank", "Flex Pay Personal Loan", "bank",
             1100, 1600, 30000, 1500000, 12, 60, 675, 20000, 21, 60,
             {"salaried", "self_employed"}, 200, NoneInt, 3,
             {"debt_consolidation", "personal", "medical"}, 0, TRUE),
      Scheme("FULL_SMART_01", "Fullerton India", "Smart Cash Loan", "nbfc",
             1400, 2400, 25000, 500000, 12, 48, 600, 12000, 21, 65,
             {"salaried", "self_employed", "business", "professional"}, 300, NoneInt, 3,
             {"emergency", "medical", "personal"}, 2, TRUE)>>

get_all_schemes == SelectSeq(LOAN_SCHEMES, LAMBDA s : s.is_active)

(***************************************************************************)
(* agents/scheme_agent.py                                                  *)
(***************************************************************************)
\* the profile values a comparison in _check_eligibility cannot take
EligibilityRaises(loan_amount, tenure_months, credit_score, monthly_income) ==
    \/ credit_score = NoneInt
    \/ loan_amount = NoneInt
    \/ tenure_months = NoneInt
    \/ monthly_income = NoneInt

\* variant: the income floor of a scheme is not looked at
_check_eligibility_any_income(scheme, loan_amount, tenure_months, credit_score, monthly_income, employment_type, age) ==
    /\ ~(credit_score < scheme.min_credit_score)
    /\ ~(loan_amount < scheme.min_loan_amount)
    /\ ~(loan_amount > scheme.max_loan_amount)
    /\ ~(tenure_months < scheme.min_tenure_months)
    /\ ~(tenure_months > scheme.max_tenure_months)
    /\ ~(age < scheme.min_age \/ age > scheme.max_age)
    /\ employment_type \in scheme.eligible_employment

_check_eligibility(scheme, loan_amount, tenure_months, credit_score, monthly_income, employment_type, age) ==
    /\ ~(credit_score < scheme.min_credit_score)
    /\ ~(loan_amount < scheme.min_loan_amount)
    /\ ~(loan_amount > scheme.max_loan_amount)
    /\ ~(tenure_months < scheme.min_tenure_months)
    /\ ~(tenure_months > scheme.max_tenure_months)
    /\ ~(monthly_income < scheme.min_monthly_income)
    /\ ~(age < scheme.min_age \/ age > scheme.max_age)
    /\ employment_type \in scheme.eligible_employment

\* round(): value / unit to the nearest integer, a tie to the even one
round_half_even(value, unit) ==
    LET low == value \div unit
        rest == value % unit
    IN  IF 2 * rest > unit \/ (2 * rest = unit /\ low % 2 = 1) THEN low + 1 ELSE low

_calculate_customer_rate(scheme, credit_score) ==
    LET min_rate == scheme.interest_rate_min
        max_rate == scheme.interest_rate_max
        rate_range == max_rate - min_rate
    IN  IF credit_score >= 850 THEN min_rate
        ELSE IF credit_score <= 650 THEN max_rate
        \* round(min_rate + rate_range * score_factor, 2)
        ELSE round_half_even(min_rate * 200 + rate_range * (850 - credit_score), 200)

_calculate_processing_fee(scheme, loan_amount) ==
    IF scheme.processing_fee_flat # NoneInt
    THEN scheme.processing_fee_flat
    ELSE ((loan_amount \div 100) * scheme.processing_fee_percent) \div 100

\* the weighted score, in tenths of a point; sub-scores in thousandths
_score_scheme(scheme, interest_rate, emi, monthly_income, credit_score, loan_purpose, processing_fee, loan_amount) ==
    LET rate_score == Max2(0, Min2(100000, ((2400 - interest_rate) * 1000) \div 14))
        \* emi_ratio * 100, in thousandths
        emi_ratio_percent == MulDiv(emi, 100000, monthly_income)
        emi_score == IF emi * 10 <= 3 * monthly_income THEN 100000
                     ELSE IF emi * 10 <= 4 * monthly_income THEN 80000
                     ELSE IF emi * 10 <= 5 * monthly_income THEN 60000
                     ELSE Max2(0, 100000 - emi_ratio_percent)
        credit_buffer == credit_score - scheme.min_credit_score
        credit_score_val == Min2(100, 50 + credit_buffer) * 1000
        fee_hundredths == (processing_fee * 10000) \div loan_amount
        fee_score == IF processing_fee = 0 THEN 100000
                     ELSE IF processing_fee * 100 <= loan_amount THEN 80000
                     ELSE IF processing_fee * 100 <= 2 * loan_amount THEN 60000
                     ELSE Max2(0, 100000 - fee_hundredths * 200)
        loan_purpose_lower == IF loan_purpose # NoneStr THEN loan_purpose ELSE "personal"
        purpose_score == IF loan_purpose_lower \in scheme.target_purposes
                         THEN 100000 ELSE 50000
        offer_score == Min2(100, scheme.special_offers * 25) * 1000
        \* the weighted sum, in hundred-thousandths
        total_score == rate_score * 30 + emi_score * 25 + credit_score_val * 15
                       + fee_score * 10 + purpose_score * 10 + offer_score * 10
    IN  round_half_even(total_score, 10000)

SchemeRecommendation(scheme, loan_amount, tenure_months, credit_score, monthly_income, loan_purpose) ==
    LET interest_rate == _calculate_customer_rate(scheme, credit_score)
        emi == calculate_emi(loan_amount, interest_rate, tenure_months)
        processing_fee == _calculate_processing_fee(scheme, loan_amount)
        total_interest == (emi * tenure_months) - loan_amount
    IN  [scheme_id |-> scheme.scheme_id,
         bank_name |-> scheme.bank_name,
         scheme_name |-> scheme.scheme_name,
         score |-> _score_scheme(scheme, interest_rate, emi, monthly_income,
                                 credit_score, loan_purpose, processing_fee, loan_amount),
         interest_rate |-> interest_rate,
         emi |-> emi,
         total_cost |-> loan_amount + total_interest + processing_fee]

\* variant: the sort without reverse=True
RECURSIVE SortByScore_ascending(_)
SortByScore_ascending(recs) ==
    IF Len(recs) <= 1 THEN recs
    ELSE LET least == CHOOSE i \in 1..Len(recs) :
                         /\ \A j \in 1..Len(recs) : recs[i].score <= recs[j].score
                         /\ \A j \in 1..(i - 1) : recs[i].score < recs[j].score
             rest == [k \in 1..(Len(recs) - 1) |-> IF k < least THEN recs[k] ELSE recs[k + 1]]
         IN  <<recs[least]>> \o SortByScore_ascending(rest)

\* list.sort(key=score, reverse=True): stable, equal scores keep their order
RECURSIVE SortByScore(_)
SortByScore(recs) ==
    IF Len(recs) <= 1 THEN recs
    ELSE LET best == CHOOSE i \in 1..Len(recs) :
                        /\ \A j \in 1..Len(recs) : recs[j].score <= recs[i].score
                        /\ \A j \in 1..(i - 1) : recs[j].score < recs[i].score
             rest == [k \in 1..(Len(recs) - 1) |-> IF k < best THEN recs[k] ELSE recs[k + 1]]
         IN  <<recs[best]>> \o SortByScore(rest)

_generate_recommendations(state) ==
    LET eligible == SelectSeq(get_all_schemes,
                        LAMBDA scheme : _check_eligibility(scheme, state.loan_amount,
                                            state.tenure_months, state.credit_score,
                                            state.monthly_salary, "salaried", 30))
        scored == [i \in 1..Len(eligible) |->
                     SchemeRecommendation(eligible[i], state.loan_amount,
                         state.tenure_months, state.credit_score,
                         state.monthly_salary, state.loan_purpose)]
    IN  SortByScore(scored)

\* variant: an ordinal beyond the list names the last offer
_parse_scheme_selection_clamped(message, state) ==
    LET recommendations == state.scheme_recommendations
        ordinal == Features[message].ordinal
    IN  IF recommendations = <<>> THEN NoneStr
        ELSE IF ordinal \in 1..3
        THEN recommendations[Min2(ordinal, Len(recommendations))].scheme_id
        ELSE NoneStr

_parse_scheme_selection(message, state) ==
    LET recommendations == state.scheme_recommendations
        ordinal == Features[message].ordinal
    IN  IF recommendations = <<>> THEN NoneStr
        ELSE IF ordinal \in 1..3 /\ Len(recommendations) >= ordinal
        THEN recommendations[ordinal].scheme_id
        ELSE NoneStr

_handle_scheme_selection(new_state, state, scheme_id) ==
    LET recommendations == state.scheme_recommendations
        hits == {i \in 1..Len(recommendations) : recommendations[i].scheme_id = scheme_id}
        selected == recommendations[CHOOSE i \in hits : \A j \in hits : i <= j]
        out == IF hits = {}
               THEN Reply([new_state EXCEPT !.stage = SCHEME_RECOMMENDATION],
                          state, "scheme_invalid_option")
               ELSE Reply([new_state EXCEPT !.selected_scheme = <<selected>>,
                                            !.final_interest_rate = selected.interest_rate,
                                            !.emi = selected.emi,
                                            !.stage = RATE_NEGOTIATION],
                          state, "scheme_selected")
    IN  Ok([out EXCEPT !.current_agent = "SCHEME"])

Take3(seq) == IF Len(seq) <= 3 THEN seq ELSE SubSeq(seq, 1, 3)

scheme_agent(state, env) ==
    LET last_user_message == LastUserMessage(state)
        selection == _parse_scheme_selection(last_user_message, state)
        recommendations == _generate_recommendations(state)
    IN  IF state.stage = SCHEME_RECOMMENDATION /\ selection # NoneStr
        THEN _handle_scheme_selection(state, state, selection)
        ELSE IF state.stage = SCHEME_RECOMMENDATION /\ state.scheme_recommendations # <<>>
        THEN Ok([Reply([state EXCEPT !.stage = SCHEME_RECOMMENDATION],
                       state, "scheme_select_prompt")
                 EXCEPT !.current_agent = "SCHEME"])
        ELSE IF get_all_schemes # <<>>
                /\ EligibilityRaises(state.loan_amount, state.tenure_months,
                                     state.credit_score, state.monthly_salary)
        THEN Raise("TypeError", state)      \* int < None in _check_eligibility
        ELSE IF recommendations = <<>>
        THEN Ok([Reply([state EXCEPT !.stage = REJECTED], state, "no_eligible_schemes")
                 EXCEPT !.current_agent = "SCHEME"])
        ELSE Ok([Reply([state EXCEPT !.scheme_recommendations = Take3(recommendations),
                                     !.stage = SCHEME_RECOMMENDATION],
                       state, "scheme_recommendations")
                 EXCEPT !.current_agent = "SCHEME"])

(***************************************************************************)
(* agents/negotiation_agent.py                                             *)
(***************************************************************************)
MAX_NEGOTIATION_ATTEMPTS == 2

\* Python "a or b" on optional numbers
OrElse(a, b) == IF a # NoneInt /\ a # 0 THEN a ELSE b

_present_initial_offer(new_state, state) ==
    LET interest_rate == OrElse(state.interest_rate, 1200)
        out == Reply([new_state EXCEPT !.final_interest_rate = interest_rate,
                                       !.rate_negotiation_attempts = 0,
                                       !.stage = RATE_NEGOTIATION],
                     state, "initial_offer")
    IN  Ok([out EXCEPT !.current_agent = "NEGOTIATION"])

\* the rate the handler computes before it calls the undefined name
\* _calculate_emi (negotiation_agent.py:140), which raises NameError
negotiated_rate(state) ==
    LET current_rate == OrElse(state.final_interest_rate, OrElse(state.interest_rate, 1200))
        credit_score == OrElse(state.credit_score, 700)
        reduction == IF credit_score >= 800 THEN 50
                     ELSE IF credit_score >= 750 THEN 35
                     ELSE 25
    IN  Max2(current_rate - reduction, 800)

_negotiate_rate(new_state, state, attempts) ==
    Raise("NameError", state)     \* name '_calculate_emi' is not defined

\* variant: the accepted rate is taken from the underwriting rate first
_accept_offer_from_base_rate(new_state, state) ==
    LET final_rate == OrElse(state.interest_rate, state.final_interest_rate)
        out == Reply([new_state EXCEPT !.final_interest_rate = final_rate,
                                       !.stage = SANCTION_LETTER],
                     state, "offer_accepted")
    IN  IF state.approved_amount = NoneInt \/ state.emi = NoneInt
        THEN Raise("TypeError", state)
        ELSE Ok([out EXCEPT !.current_agent = "NEGOTIATION"])

_accept_offer(new_state, state) ==
    LET final_rate == OrElse(state.final_interest_rate, state.interest_rate)
        out == Reply([new_state EXCEPT !.final_interest_rate = final_rate,
                                       !.stage = SANCTION_LETTER],
                     state, "offer_accepted")
    IN  IF state.approved_amount = NoneInt \/ state.emi = NoneInt
        THEN Raise("TypeError", state)     \* f"{None:,}"
        ELSE Ok([out EXCEPT !.current_agent = "NEGOTIATION"])

\* variant: a refused request is counted as an attempt
_max_attempts_reached_counting(new_state, state) ==
    Ok([Reply([new_state EXCEPT !.rate_negotiation_attempts = @ + 1,
                                !.stage = RATE_NEGOTIATION],
              state, "max_attempts_reached")
        EXCEPT !.current_agent = "NEGOTIATION"])

_max_attempts_reached(new_state, state) ==
    Ok([Reply([new_state EXCEPT !.stage = RATE_NEGOTIATION], state, "max_attempts_reached")
        EXCEPT !.current_agent = "NEGOTIATION"])

_ask_for_decision(new_state, state, attempts) ==
    Ok([Reply([new_state EXCEPT !.stage = RATE_NEGOTIATION], state, "ask_for_decision")
        EXCEPT !.current_agent = "NEGOTIATION"])

negotiation_agent(state, env) ==
    LET last_user_message == LastUserMessage(state)
        attempts == state.rate_negotiation_attempts
    IN  IF state.stage = DECISION
        THEN _present_initial_offer(state, state)
        ELSE IF Features[last_user_message].accept_kw
        THEN _accept_offer(state, state)
        ELSE IF Features[last_user_message].negotiate_kw
        THEN IF attempts < MAX_NEGOTIATION_ATTEMPTS
             THEN _negotiate_rate(state, state, attempts)
             ELSE _max_attempts_reached(state, state)
        ELSE _ask_for_decision(state, state, attempts)

(***************************************************************************)
(* agents/sanction_agent.py                                                *)
(***************************************************************************)
\* sanction id and download url, both derived from one fresh value, and the
\* loan terms of the letter
_generate_sanction_letter(state, fresh) ==
    [sanction_id |-> fresh, download_url |-> fresh,
     data |-> [loan |-> [amount |-> state.approved_amount,
                         tenure_months |-> state.tenure_months,
                         interest_rate |-> state.interest_rate,
                         emi |-> state.emi]]]

\* the loan summary of the "Sanction Letter Generated" reply
sanction_summary(state) ==
    [approved_amount |-> state.approved_amount,
     interest_rate |-> state.interest_rate,
     emi |-> state.emi,
     tenure_months |-> state.tenure_months]

\* variant: the letter is generated whatever the decision
sanction_agent_unguarded(state, env) ==
    LET sanction_data == _generate_sanction_letter(state, env.fresh)
    IN  IF state.approved_amount = NoneInt
        THEN Ok([Reply([state EXCEPT !.stage = ERROR, !.error = "TypeError"],
                       state, "sanction_error")
                 EXCEPT !.current_agent = "SANCTION"])
        ELSE IF state.emi = NoneInt
        THEN Ok([Reply([state EXCEPT !.sanction_id = sanction_data.sanction_id,
                                     !.sanction_letter_url = sanction_data.download_url,
                                     !.stage = ERROR, !.error = "TypeError"],
                       state, "sanction_error")
                 EXCEPT !.current_agent = "SANCTION"])
        ELSE Ok([Reply([state EXCEPT !.sanction_id = sanction_data.sanction_id,
                                     !.sanction_letter_url = sanction_data.download_url,
                                     !.stage = COMPLETED],
                       state, "sanction_letter")
                 EXCEPT !.current_agent = "SANCTION"])

sanction_agent(state, env) ==
    LET sanction_data == _generate_sanction_letter(state, env.fresh)
    IN  IF state.decision # "APPROVED"
        THEN Ok(Reply([state EXCEPT !.stage = ERROR,
                                    !.error = "not_approved"],
                      state, "sanction_needs_approval"))
        ELSE IF state.approved_amount = NoneInt
        \* int(None * 0.02) inside the try block, before the id is stored
        THEN Ok([Reply([state EXCEPT !.stage = ERROR, !.error = "TypeError"],
                       state, "sanction_error")
                 EXCEPT !.current_agent = "SANCTION"])
        ELSE IF state.emi = NoneInt
        \* f"{None:,}" inside the try block, after the id is stored
        THEN Ok([Reply([state EXCEPT !.sanction_id = sanction_data.sanction_id,
                                     !.sanction_letter_url = sanction_data.download_url,
                                     !.stage = ERROR, !.error = "TypeError"],
                       state, "sanction_error")
                 EXCEPT !.current_agent = "SANCTION"])
        ELSE Ok([Reply([state EXCEPT !.sanction_id = sanction_data.sanction_id,
                                     !.sanction_letter_url = sanction_data.download_url,
                                     !.stage = COMPLETED],
                       state, "sanction_letter")
                 EXCEPT !.current_agent = "SANCTION"])

(***************************************************************************)
(* agents/master_agent.py and agents/graph.py                              *)
(***************************************************************************)
\* variant: the router stamps itself as the current agent
master_agent_stamping(state) == [state EXCEPT !.current_agent = "MASTER"]

master_agent(state) == state

\* variant: a decided application always goes back to underwriting
_route_from_master_no_scheme(state) ==
    LET stage == state.stage
    IN  IF stage \in {GREETING, NEED_ANALYSIS, COLLECTING_DETAILS} THEN "sales"
        ELSE IF stage \in {KYC_VERIFICATION, OTP_VERIFICATION} THEN "verification"
        ELSE IF stage \in {CREDIT_CHECK, SALARY_UPLOAD, UNDERWRITING, DECISION}
        THEN "underwriting"
        ELSE IF stage = SCHEME_RECOMMENDATION THEN "scheme"
        ELSE IF stage = RATE_NEGOTIATION THEN "negotiation"
        ELSE IF stage = SANCTION_LETTER THEN "sanction"
        ELSE "end"

\* variant: an approved application goes from the decision to negotiation
_route_from_master_to_negotiation(state) ==
    LET stage == state.stage
    IN  IF stage \in {GREETING, NEED_ANALYSIS, COLLECTING_DETAILS} THEN "sales"
        ELSE IF stage \in {KYC_VERIFICATION, OTP_VERIFICATION} THEN "verification"
        ELSE IF stage \in {CREDIT_CHECK, SALARY_UPLOAD, UNDERWRITING, DECISION}
        THEN IF state.decision = "APPROVED" /\ stage = DECISION
             THEN "negotiation"
             ELSE "underwriting"
        ELSE IF stage = SCHEME_RECOMMENDATION THEN "scheme"
        ELSE IF stage = RATE_NEGOTIATION THEN "negotiation"
        ELSE IF stage = SANCTION_LETTER THEN "sanction"
        ELSE "end"

_route_from_master(state) ==
    LET stage == state.stage
    IN  IF stage \in {GREETING, NEED_ANALYSIS, COLLECTING_DETAILS} THEN "sales"
        ELSE IF stage \in {KYC_VERIFICATION, OTP_VERIFICATION} THEN "verification"
        ELSE IF stage \in {CREDIT_CHECK, SALARY_UPLOAD, UNDERWRITING, DECISION}
        THEN IF state.decision = "APPROVED" /\ stage = DECISION
             THEN "scheme"
             ELSE "underwriting"
        ELSE IF stage = SCHEME_RECOMMENDATION THEN "scheme"
        ELSE IF stage = RATE_NEGOTIATION THEN "negotiation"
        ELSE IF stage = SANCTION_LETTER THEN "sanction"
        ELSE IF stage \in {COMPLETED, REJECTED, ERROR} THEN "end"
        ELSE "end"

\* variant: the graph goes back to the router after a handler
_should_continue_looping(state) == "continue"

_should_continue(state) == "end"

\* the node a route names (create_agent_graph: add_node / add_conditional_edges)
RunNode(node, state, env) ==
    CASE node = "sales" -> sales_agent(state, env)
      [] node = "verification" -> verification_agent(state, env)
      [] node = "underwriting" -> underwriting_agent(state, env)
      [] node = "scheme" -> scheme_agent(state, env)
      [] node = "negotiation" -> negotiation_agent(state, env)
      [] node = "sanction" -> sanction_agent(state, env)

\* messages: Annotated[List[BaseMessage], add_messages].  The reducer gives
\* every message without an id a fresh one, replaces a message of the
\* channel by the update's message with the same id and appends the others.
MaxId(msgs) ==
    LET ids == {msgs[i].id : i \in 1..Len(msgs)} \cup {0}
    IN  CHOOSE n \in ids : \A k \in ids : k <= n

\* the messages with the missing ids filled in, counting from next
fill_ids(msgs, next) ==
    [i \in 1..Len(msgs) |->
        IF msgs[i].id = 0
        THEN [msgs[i] EXCEPT
                !.id = next + Cardinality({j \in 1..(i - 1) : msgs[j].id = 0})]
        ELSE msgs[i]]

\* left with each message replaced by the last message of right that has
\* its id, followed by the messages of right whose id left does not have
merge_messages(left, right) ==
    LET left_ids == {left[i].id : i \in 1..Len(left)}
        same(i) == {j \in 1..Len(right) : right[j].id = left[i].id}
        is_new(m) == m.id \notin left_ids
    IN  [i \in 1..Len(left) |->
            IF same(i) = {} THEN left[i]
            ELSE right[CHOOSE j \in same(i) : \A k \in same(i) : k <= j]]
        \o SelectSeq(right, is_new)

add_messages(left, right) ==
    LET l == fill_ids(left, MaxId(left \o right) + 1)
        r == fill_ids(right, MaxId(l \o right) + 1)
    IN  merge_messages(l, r)

\* a node's return value written to the channels: messages go through the
\* reducer, every other key is overwritten
channel_write(state, returned) ==
    [returned EXCEPT !.messages = add_messages(state.messages, returned.messages)]

\* graph.ainvoke from the node "master": the state at END, the handlers that
\* ran, and the exception a handler (or the step limit) raised
RECURSIVE run_from_master(_, _, _, _)

\* after the handler's write: the edge _should_continue chooses
after_write(routed, written, env, steps, handlers) ==
    IF _should_continue(written) = "continue"
    THEN run_from_master(written, env, steps + 1, Append(handlers, routed))
    ELSE [raised |-> FALSE, exc |-> NoneStr, state |-> written,
          handlers |-> Append(handlers, routed)]

\* after the handler node: an exception leaves the graph, a return value is
\* written to the channels
after_node(routed, mastered, out, env, steps, handlers) ==
    IF out.raised
    THEN [raised |-> TRUE, exc |-> out.exc, state |-> mastered,
          handlers |-> Append(handlers, routed)]
    ELSE after_write(routed, channel_write(mastered, out.state), env, steps, handlers)

\* the conditional edge out of "master"
after_master(routed, mastered, env, steps, handlers) ==
    IF routed = "end"
    THEN [raised |-> FALSE, exc |-> NoneStr, state |-> mastered, handlers |-> handlers]
    ELSE IF steps >= MaxSupersteps
    THEN [raised |-> TRUE, exc |-> "GraphRecursionError", state |-> mastered,
          handlers |-> handlers]
    ELSE after_node(routed, mastered, RunNode(routed, mastered, env), env, steps, handlers)

route_from(mastered, env, steps, handlers) ==
    after_master(_route_from_master(mastered), mastered, env, steps, handlers)

run_from_master(state, env, steps, handlers) ==
    route_from(channel_write(state, master_agent(state)), env, steps, handlers)

ainvoke(state, env) ==
    run_from_master([state EXCEPT !.messages = add_messages(<<>>, state.messages)],
                    env, 0, <<>>)

\* variant: the except branch also counts a retry
graph_outcome_counting_retry(state, final) ==
    IF final.raised
    THEN [final EXCEPT !.state = [state EXCEPT !.stage = ERROR, !.error = final.exc,
                                               !.retry_count = @ + 1]]
    ELSE final

\* run_agent_graph's except branch: a copy of the input with stage and error
graph_outcome(state, final) ==
    IF final.raised
    THEN [final EXCEPT !.state = [state EXCEPT !.stage = ERROR, !.error = final.exc]]
    ELSE final

run_agent_graph(state, env) == graph_outcome(state, ainvoke(state, env))

(***************************************************************************)
(* The identity / credit data source.  mock_data/customers.py holds the    *)
(* CRM records; an unknown PAN gets a demo profile (random score 700..850, *)
(* one of a fixed list of limits).                                         *)
(***************************************************************************)
MOCK_CUSTOMERS ==
    { [id |-> "00000000-0000-0000-0000-000000000001", name |-> "John Smith", phone |-> "9876543210",
       kyc_verified |-> TRUE, pre_approved_limit |-> 100000, credit_score |-> 750],
      [id |-> "00000000-0000-0000-0000-000000000002", name |-> "Asha Rao", phone |-> "9123456780",
       kyc_verified |-> FALSE, pre_approved_limit |-> 100000, credit_score |-> 650] }

\* samples of (random.choice of the demo limit list, random.randint(700, 850))
DemoProfiles == {<<200000, 720>>, <<300000, 810>>}

\* what _verify_customer can return for a well-formed PAN
Profiles ==
    { [customer_id |-> c.id, pre_approved_limit |-> c.pre_approved_limit,
       credit_score |-> c.credit_score] : c \in MOCK_CUSTOMERS }
    \cup
    { [customer_id |-> "demo", pre_approved_limit |-> d[1], credit_score |-> d[2]] :
        d \in DemoProfiles }

\* a sample of str(random.randint(100000, 999999))
OtpCodes == {"482913"}

\* ChatRequest.customer_phone and what KYCService.find_by_phone returns for it
NoCustomer ==
    [id |-> NoneStr, name |-> NoneStr, phone |-> NoneStr, kyc_verified |-> FALSE,
     pre_approved_limit |-> NoneInt, credit_score |-> NoneInt]

\* KYCService.find_by_phone
find_by_phone(phone) ==
    LET hits == {c \in MOCK_CUSTOMERS : c.phone = phone}
    IN  IF hits = {} THEN NoCustomer ELSE CHOOSE c \in hits : TRUE

NoPhone == [customer_phone |-> NoneStr, customer |-> NoCustomer]

\* samples of ChatRequest.customer_phone
RequestPhones == {NoneStr, "9876543210"}

PhoneLookups ==
    { [customer_phone |-> ph, customer |-> find_by_phone(ph)] : ph \in RequestPhones }

(***************************************************************************)
(* ConversationManager.get_or_create_state: the state it returns and the   *)
(* store it leaves (a new conversation is saved at once).                  *)
(***************************************************************************)
get_or_create_state(st, conversation_id, lookup) ==
    LET existing == get_state(st, conversation_id)
        fresh == create_initial_state(conversation_id)
        customer == lookup.customer
        state == IF lookup.customer_phone = NoneStr THEN fresh
                 ELSE IF customer.id = NoneStr
                 THEN [fresh EXCEPT !.customer_phone = lookup.customer_phone]
                 ELSE [fresh EXCEPT !.customer_phone = lookup.customer_phone,
                                    !.customer_id = customer.id,
                                    !.customer_name = customer.name,
                                    !.kyc_verified = customer.kyc_verified,
                                    !.pre_approved_limit = customer.pre_approved_limit]
    IN  IF existing # <<>>
        THEN [state |-> existing[1], store |-> st]
        ELSE [state |-> state, store |-> save_state(st, state)]

(***************************************************************************)
(* api/v1/chat.py:chat                                                     *)
(***************************************************************************)
DefaultReply == "default_reply"

\* the message of the ChatResponse: the last assistant message of the result
ResponseMessage(result_state) ==
    LET idx == {i \in 1..Len(result_state.messages) :
                    result_state.messages[i].type = "AIMessage"}
    IN  IF idx = {} THEN DefaultReply
        ELSE result_state.messages[CHOOSE i \in idx : \A j \in idx : j <= i].content

IdleRequest ==
    [pc |-> "idle", cid |-> NoneStr, message |-> NoneStr, turn |-> 0,
     state |-> create_initial_state(NoneStr),
     result |-> create_initial_state(NoneStr),
     handlers |-> <<>>, raised |-> FALSE, stored_messages |-> <<>>,
     response |-> NoneStr]

\* no underwriting request has been made
IdleEvaluation ==
    [pc |-> "idle",
     request |-> [requested_amount |-> NoneInt, tenure_months |-> NoneInt,
                  credit_score |-> NoneInt, monthly_salary |-> NoneInt,
                  pre_approved_limit |-> NoneInt, existing_emi |-> 0],
     salary_verified |-> FALSE,
     response |-> UnderwritingResponse(NoneStr, NoneInt, NoneInt, NoneInt, NoneInt,
                                       <<>>, NoneStr),
     result |-> EvalRaises]

\* no EMI calculation has been asked for
IdleCalculation ==
    [pc |-> "idle", principal |-> NoneInt, larger |-> NoneInt,
     annual_rate |-> NoneInt, months |-> NoneInt,
     emi |-> NoneInt, larger_emi |-> NoneInt]

Init ==
    /\ store = [c \in ConvIds |-> <<>>]
    /\ req = [r \in Reqs |-> IdleRequest]
    /\ clock = 0
    /\ uw = IdleEvaluation
    /\ calc = IdleCalculation

\* chat, lines 68-69: the loaded session with the caller message appended
chat_append(r, conversation_id, message, got) ==
    /\ store' = got.store
    /\ req' = LET state == add_user_message(got.state, message, clock + 1)
              IN  [req EXCEPT ![r] =
                     [IdleRequest EXCEPT !.pc = "loaded",
                                         !.cid = conversation_id,
                                         !.message = message,
                                         !.turn = clock + 1,
                                         !.state = state,
                                         !.result = state,
                                         !.stored_messages =
                                             got.store[conversation_id][1].messages]]

\* chat, lines 50-69: load or create the session, append the caller message
chat_load(r, conversation_id, message, lookup, bound) ==
    /\ req[r].pc \in {"idle", "done"}
    /\ clock < bound
    /\ chat_append(r, conversation_id, message,
                   get_or_create_state(store, conversation_id, lookup))
    /\ clock' = clock + 1
    /\ UNCHANGED <<uw, calc>>

\* chat, lines 74-112: save the result, build the response
chat_respond(r, final) ==
    /\ store' = save_state(store, final.state)
    /\ req' = [req EXCEPT ![r] =
                 [@ EXCEPT !.pc = "done",
                           !.result = final.state,
                           !.handlers = final.handlers,
                           !.raised = final.raised,
                           !.response = ResponseMessage(final.state)]]

\* chat, lines 71-112: run the graph, save the result, build the response
chat_finish(r, profile, otp) ==
    /\ req[r].pc = "loaded"
    /\ chat_respond(r, run_agent_graph(req[r].state,
                                       [profile |-> profile, otp |-> otp,
                                        fresh |-> req[r].turn]))
    /\ UNCHANGED <<clock, uw, calc>>

\* the phone lookup is made for a new conversation only
LookupsFor(conversation_id) ==
    IF store[conversation_id] = <<>> THEN PhoneLookups ELSE {NoPhone}

\* the data source and the OTP generator are consulted for a PAN only
ProfilesFor(r) ==
    IF req[r].pc = "loaded"
       /\ req[r].state.stage # OTP_VERIFICATION
       /\ _extract_pan(LastUserMessage(req[r].state)) # NoneStr
    THEN Profiles
    ELSE {CHOOSE p \in Profiles : TRUE}

\* turns of one conversation, one at a time
Load == \E m \in Msgs, l \in LookupsFor("c1") :
            chat_load("r1", "c1", m, l, MaxTurns)

Finish == \E p \in ProfilesFor("r1"), o \in OtpCodes : chat_finish("r1", p, o)

Next == Load \/ Finish

Spec == Init /\ [][Next]_vars

\* overlapping requests on two conversations
ConcLoad == \E r \in Reqs, c \in ConvIds, m \in ConcMsgs :
                chat_load(r, c, m, NoPhone, MaxConcTurns)

ConcFinish == \E r \in Reqs : \E p \in ProfilesFor(r), o \in OtpCodes :
                chat_finish(r, p, o)

NextConc == ConcLoad \/ ConcFinish

SpecConc == Init /\ [][NextConc]_vars

(***************************************************************************)
(* A cooperative applicant: every message answers what the session's stage *)
(* asks for (need, amount, tenure and contact; PAN; OTP; a scheme number;  *)
(* acceptance), and nothing is sent once the stage is terminal.  The       *)
(* applicant keeps answering (weak fairness of CoopLoad), and every        *)
(* request that was received is answered: the endpoint's coroutine runs to *)
(* its return, so a request is never left waiting for ever.  Finish is     *)
(* enabled exactly when the request is at "loaded" and always leaves       *)
(* "loaded", so this is weak fairness of Finish, stated on the request's   *)
(* position.                                                               *)
(***************************************************************************)
\* the stages _route_from_master sends to END
TerminalStages == {COMPLETED, REJECTED, ERROR}

StoredStage(c) ==
    IF store[c] = <<>> THEN GREETING ELSE _deserialize_state(store[c][1]).stage

CoopMsgs(stage) ==
    IF stage = GREETING THEN {"want", "loan_all"}
    ELSE IF stage \in {NEED_ANALYSIS, COLLECTING_DETAILS} THEN {"loan_all"}
    ELSE IF stage = KYC_VERIFICATION THEN {"pan"}
    ELSE IF stage = OTP_VERIFICATION THEN {"yes", "otp6"}
    ELSE IF stage = SCHEME_RECOMMENDATION THEN {"one", "two", "three"}
    ELSE IF stage \in TerminalStages THEN {}
    ELSE {"yes"}

CoopLoad == \E m \in CoopMsgs(StoredStage("c1")), l \in LookupsFor("c1") :
                chat_load("r1", "c1", m, l, MaxCoopTurns)

NextCoop == CoopLoad \/ Finish

Answered == []<>(req["r1"].pc # "loaded")

SpecCoop == Init /\ [][NextCoop]_vars /\ WF_vars(CoopLoad) /\ Answered

(***************************************************************************)
(* Turns of a conversation that scheme selection has left at               *)
(* RATE_NEGOTIATION: an approved application, the selected scheme's rate   *)
(* and EMI, and a number of negotiation attempts already used.             *)
(***************************************************************************)
NegCreditScores == {720, 760, 810}
NegRates == {810, 1150, 1200}
NegAttempts == 0..MAX_NEGOTIATION_ATTEMPTS
NegMsgs == {"yes", "negotiate", "both", "hello"}

NegotiationSession(credit_score, rate, attempts) ==
    [create_initial_state("c1") EXCEPT
        !.stage = RATE_NEGOTIATION,
        !.current_agent = "SCHEME",
        !.customer_name = "John Smith",
        !.customer_phone = "9876543210",
        !.customer_pan = "ABCDE1234F",
        !.customer_id = "demo",
        !.loan_amount = 250000,
        !.tenure_months = 24,
        !.kyc_verified = TRUE,
        !.otp_verified = TRUE,
        !.credit_score = credit_score,
        !.pre_approved_limit = 300000,
        !.decision = "APPROVED",
        !.decision_reason = "within_pre_approved_limit",
        !.approved_amount = 250000,
        !.interest_rate = calculate_interest_rate(credit_score, default_interest_rate),
        !.risk_score = 20,
        !.selected_scheme =
            <<[SchemeRecommendation(get_all_schemes[1], 250000, 24, credit_score,
                                    50000, NoneStr)
                 EXCEPT !.interest_rate = rate,
                        !.emi = calculate_emi(250000, rate, 24)]>>,
        !.final_interest_rate = rate,
        !.emi = calculate_emi(250000, rate, 24),
        !.rate_negotiation_attempts = attempts]

NegotiationSessions ==
    {NegotiationSession(cs, rate, a) :
        cs \in NegCreditScores, rate \in NegRates, a \in NegAttempts}

InitNeg ==
    /\ store \in {[c \in ConvIds |-> IF c = "c1" THEN <<_serialize_state(s)>> ELSE <<>>] :
                    s \in NegotiationSessions}
    /\ req = [r \in Reqs |-> IdleRequest]
    /\ clock = 0
    /\ uw = IdleEvaluation
    /\ calc = IdleCalculation

NegLoad == \E m \in NegMsgs : chat_load("r1", "c1", m, NoPhone, MaxNegTurns)

NextNeg == NegLoad \/ Finish

SpecNeg == InitNeg /\ [][NextNeg]_vars

(***************************************************************************)
(* Turns of a conversation at SANCTION_LETTER: the session an accepted     *)
(* offer leaves, taken with every value of the decision field, so that the *)
(* sanction handler's own test of the decision is exercised.               *)
(***************************************************************************)
SanctionDecisions == {"APPROVED", "REJECTED", "MANUAL_REVIEW", NoneStr}
SanctionMsgs == {"yes", "hello"}

AcceptedSession(credit_score, rate, decision) ==
    [NegotiationSession(credit_score, rate, 0) EXCEPT
        !.stage = SANCTION_LETTER,
        !.current_agent = "NEGOTIATION",
        !.decision = decision]

InitSanction ==
    /\ store \in {[c \in ConvIds |-> IF c = "c1" THEN <<_serialize_state(s)>> ELSE <<>>] :
                    s \in {AcceptedSession(cs, rate, d) :
                              cs \in NegCreditScores, rate \in NegRates,
                              d \in SanctionDecisions}}
    /\ req = [r \in Reqs |-> IdleRequest]
    /\ clock = 0
    /\ uw = IdleEvaluation
    /\ calc = IdleCalculation

SanctionLoad == \E m \in SanctionMsgs : chat_load("r1", "c1", m, NoPhone, MaxSanctionTurns)

NextSanction == SanctionLoad \/ Finish

SpecSanction == InitSanction /\ [][NextSanction]_vars

(***************************************************************************)
(* Turns of a conversation whose application underwriting has approved and *)
(* left at DECISION, with the customer's profile on the session: the next  *)
(* turn ranks the catalog, the turns after it select an offer.             *)
(***************************************************************************)
MaxSchemeTurns == 3

SchemeCreditScores == {650, 725, 810}
SchemeAmounts == {250000, 5000000}
SchemeSalaries == {10000, 13000, 16000, 50000}
SchemeMsgs == {"one", "two", "three", "yes"}

DecisionSession(credit_score, loan_amount, monthly_salary) ==
    [create_initial_state("c1") EXCEPT
        !.stage = DECISION,
        !.current_agent = "UNDERWRITING",
        !.customer_name = "John Smith",
        !.customer_phone = "9876543210",
        !.customer_pan = "ABCDE1234F",
        !.customer_id = "demo",
        !.loan_amount = loan_amount,
        !.tenure_months = 24,
        !.kyc_verified = TRUE,
        !.otp_verified = TRUE,
        !.credit_score = credit_score,
        !.pre_approved_limit = loan_amount,
        !.salary_verified = TRUE,
        !.monthly_salary = monthly_salary,
        !.decision = "APPROVED",
        !.decision_reason = "within_pre_approved_limit",
        !.approved_amount = loan_amount,
        !.interest_rate = calculate_interest_rate(credit_score, default_interest_rate),
        !.emi = calculate_emi(loan_amount,
                              calculate_interest_rate(credit_score, default_interest_rate), 24),
        !.risk_score = 20]

DecisionSessions ==
    {DecisionSession(cs, amount, salary) :
        cs \in SchemeCreditScores, amount \in SchemeAmounts, salary \in SchemeSalaries}

InitScheme ==
    /\ store \in {[c \in ConvIds |-> IF c = "c1" THEN <<_serialize_state(s)>> ELSE <<>>] :
                    s \in DecisionSessions}
    /\ req = [r \in Reqs |-> IdleRequest]
    /\ clock = 0
    /\ uw = IdleEvaluation
    /\ calc = IdleCalculation

SchemeLoad == \E m \in SchemeMsgs : chat_load("r1", "c1", m, NoPhone, MaxSchemeTurns)

NextScheme == SchemeLoad \/ Finish

SpecScheme == InitScheme /\ [][NextScheme]_vars

(***************************************************************************)
(* Turns of a conversation that PAN verification has left at              *)
(* OTP_VERIFICATION, with the customer's profile and a code on the session. *)
(***************************************************************************)
MaxOtpTurns == 2

OtpSessionCodes == {"482913", "111111"}
OtpMsgs == {"otp6", "loan", "yes", "hello", "pan", "loan_all"}

OtpSession(otp_code, profile) ==
    [create_initial_state("c1") EXCEPT
        !.stage = OTP_VERIFICATION,
        !.current_agent = "VERIFICATION",
        !.customer_name = "John Smith",
        !.customer_phone = "9876543210",
        !.customer_pan = "ABCDE1234F",
        !.customer_id = profile.customer_id,
        !.loan_amount = 250000,
        !.tenure_months = 24,
        !.pre_approved_limit = profile.pre_approved_limit,
        !.credit_score = profile.credit_score,
        !.otp_code = otp_code,
        !.otp_verified = FALSE]

OtpSessions == {OtpSession(code, profile) : code \in OtpSessionCodes, profile \in Profiles}

InitOtp ==
    /\ store \in {[c \in ConvIds |-> IF c = "c1" THEN <<_serialize_state(s)>> ELSE <<>>] :
                    s \in OtpSessions}
    /\ req = [r \in Reqs |-> IdleRequest]
    /\ clock = 0
    /\ uw = IdleEvaluation
    /\ calc = IdleCalculation

OtpLoad == \E m \in OtpMsgs : chat_load("r1", "c1", m, NoPhone, MaxOtpTurns)

NextOtp == OtpLoad \/ Finish

SpecOtp == InitOtp /\ [][NextOtp]_vars

(***************************************************************************)
(* Underwriting decisions: one request, evaluated by the engine and by the *)
(* chat flow's _evaluate_application.                                      *)
(***************************************************************************)
UWAmounts == {100000, 200000, 200001, 300000, 400000, 400001}
UWLimits == {100000, 200000}
UWCreditScores == {650, 699, 700, 720, 810}
UWSalaries == {0, 10000, 20000, 60000}
UWTenures == {24}
UWExistingEmi == {0, 5000}

UnderwritingRequests ==
    [requested_amount : UWAmounts, tenure_months : UWTenures,
     credit_score : UWCreditScores, monthly_salary : UWSalaries,
     pre_approved_limit : UWLimits, existing_emi : UWExistingEmi]

InitUW ==
    /\ store = [c \in ConvIds |-> <<>>]
    /\ req = [r \in Reqs |-> IdleRequest]
    /\ clock = 0
    /\ uw \in {[IdleEvaluation EXCEPT !.pc = "submitted", !.request = q,
                                       !.salary_verified = v] :
                   q \in UnderwritingRequests, v \in BOOLEAN}
    /\ calc = IdleCalculation

\* both implementations decide the request
Underwrite ==
    /\ uw.pc = "submitted"
    /\ uw' = [uw EXCEPT
                 !.pc = "decided",
                 !.response = evaluate(uw.request),
                 !.result = _evaluate_application(
                                uw.request.requested_amount, uw.request.tenure_months,
                                uw.request.credit_score, uw.request.pre_approved_limit,
                                uw.request.monthly_salary, uw.salary_verified)]
    /\ UNCHANGED <<store, req, clock, calc>>

NextUW == Underwrite

SpecUW == InitUW /\ [][NextUW]_vars

(***************************************************************************)
(* EMI calculations: calculate_emi for two principals at one rate and one  *)
(* tenure.                                                                 *)
(***************************************************************************)
EmiPrincipals == {100000, 100001, 100023, 100024, 250000, 250001}
EmiRates == {0, 1250, 2400}
EmiTenures == {12, 24}

InitEmi ==
    /\ store = [c \in ConvIds |-> <<>>]
    /\ req = [r \in Reqs |-> IdleRequest]
    /\ clock = 0
    /\ uw = IdleEvaluation
    /\ calc \in {[IdleCalculation EXCEPT !.pc = "asked", !.principal = p1, !.larger = p2,
                                          !.annual_rate = rate, !.months = n] :
                    p1 \in EmiPrincipals, p2 \in EmiPrincipals,
                    rate \in EmiRates, n \in EmiTenures}
    /\ calc.principal < calc.larger

Calculate ==
    /\ calc.pc = "asked"
    /\ calc' = [calc EXCEPT
                   !.pc = "done",
                   !.emi = calculate_emi(calc.principal, calc.annual_rate, calc.months),
                   !.larger_emi = calculate_emi(calc.larger, calc.annual_rate, calc.months)]
    /\ UNCHANGED <<store, req, clock, uw>>

NextEmi == Calculate

SpecEmi == InitEmi /\ [][NextEmi]_vars

(***************************************************************************)
(* Properties of a turn.  A request slot at "done" holds the turn it has   *)
(* just finished: req[r].state is the session as loaded with the caller    *)
(* message appended, req[r].result what the graph returned and save_state  *)
(* stored, req[r].stored_messages the stored transcript when the turn      *)
(* began.                                                                  *)
(***************************************************************************)
Finished(r) == req[r].pc = "done"

StageOrder(stage) ==
    CHOOSE i \in 1..Len(ConversationStage) : ConversationStage[i] = stage

StoredMessages(c) == IF store[c] = <<>> THEN <<>> ELSE store[c][1].messages

CountOf(type, msgs) == Cardinality({i \in 1..Len(msgs) : msgs[i].type = type})

IsPrefix(a, b) == Len(a) <= Len(b) /\ \A i \in 1..Len(a) : a[i] = b[i]

\* the routing table of the specification, by start stage and decision
RoutingTable(stage, decision) ==
    CASE stage \in {GREETING, NEED_ANALYSIS, COLLECTING_DETAILS} -> <<"sales">>
      [] stage \in {KYC_VERIFICATION, OTP_VERIFICATION} -> <<"verification">>
      [] stage \in {CREDIT_CHECK, SALARY_UPLOAD, UNDERWRITING} -> <<"underwriting">>
      [] stage = DECISION -> IF decision = "APPROVED" THEN <<"scheme">>
                                                       ELSE <<"underwriting">>
      [] stage = SCHEME_RECOMMENDATION -> <<"scheme">>
      [] stage = RATE_NEGOTIATION -> <<"negotiation">>
      [] stage = SANCTION_LETTER -> <<"sanction">>
      [] stage \in TerminalStages -> <<>>

\* C1: on every turn the handlers that ran are exactly what the routing
\* table gives for the stage (and decision) the turn started with: one
\* handler for a non-terminal stage, Scheme at DECISION iff the decision is
\* APPROVED, none for COMPLETED / REJECTED / ERROR.
C1_RoutingFollowsTable ==
    \A r \in Reqs :
        Finished(r) =>
            req[r].handlers = RoutingTable(req[r].state.stage, req[r].state.decision)

\* a turn that started at DECISION with an approved application and ran Scheme
C1_Witness ==
    /\ Finished("r1")
    /\ req["r1"].state.stage = DECISION
    /\ req["r1"].state.decision = "APPROVED"
    /\ req["r1"].handlers = <<"scheme">>

\* C2: at most one stage handler runs per turn, also when the handler that
\* ran moved the stage to one that routes to a different handler.
C2_OneHandlerPerTurn ==
    \A r \in Reqs : Finished(r) => Len(req[r].handlers) <= 1

\* Sales moved the stage to KYC_VERIFICATION and Verification did not run
C2_Witness ==
    /\ Finished("r1")
    /\ req["r1"].handlers = <<"sales">>
    /\ req["r1"].result.stage = KYC_VERIFICATION
    /\ _route_from_master(req["r1"].result) = "verification"

\* C3: the stage after a turn is never earlier in the stage order than the
\* stage the turn started with, unless the turn moved into REJECTED or
\* ERROR; a retry turn keeps the stage.
C3_StageNeverRegresses ==
    \A r \in Reqs :
        Finished(r) =>
            \/ req[r].result.stage \in {REJECTED, ERROR}
            \/ StageOrder(req[r].result.stage) >= StageOrder(req[r].state.stage)

\* a verification retry: the turn started and ended at KYC_VERIFICATION
C3_Witness ==
    /\ Finished("r1")
    /\ req["r1"].state.stage = KYC_VERIFICATION
    /\ req["r1"].handlers = <<"verification">>
    /\ req["r1"].result.stage = KYC_VERIFICATION

\* C4: a turn that starts in COMPLETED, REJECTED or ERROR runs no handler
\* and leaves the stage and every stored field other than the transcript and
\* the last-updated timestamp as they were.
C4_TerminalStagesAbsorb ==
    \A r \in Reqs :
        Finished(r) /\ req[r].state.stage \in TerminalStages =>
            /\ req[r].handlers = <<>>
            /\ LET after == get_state(store, req[r].cid)[1]
               IN  \A f \in DataFields : after[f] = req[r].state[f]

\* a turn on a session that an earlier turn left in ERROR
C4_Witness ==
    /\ Finished("r1")
    /\ req["r1"].state.stage = ERROR
    /\ req["r1"].handlers = <<>>
    /\ req["r1"].result.stage = ERROR

SessionStates ==
    {store[c][1] : c \in {d \in ConvIds : store[d] # <<>>}}
    \cup {req[r].state : r \in {q \in Reqs : req[q].pc # "idle"}}
    \cup {req[r].result : r \in {q \in Reqs : req[q].pc # "idle"}}

\* C5: in every session state, stored or in a turn, approved_amount is set
\* if and only if decision is APPROVED.
C5_ApprovedAmountIffApproved ==
    \A st \in SessionStates :
        (st.approved_amount # NoneInt) <=> (st.decision = "APPROVED")

\* a stored session with an approved application and its amount
C5_Witness ==
    /\ store["c1"] # <<>>
    /\ store["c1"][1].decision = "APPROVED"
    /\ store["c1"][1].approved_amount = 250000

\* C6: every turn adds exactly one caller message and exactly one system
\* message to the stored transcript, whatever the stage it started with.
C6_OneCallerOneSystemMessage ==
    \A r \in Reqs :
        Finished(r) =>
            /\ CountOf("HumanMessage", StoredMessages(req[r].cid))
                 = CountOf("HumanMessage", req[r].stored_messages) + 1
            /\ CountOf("AIMessage", StoredMessages(req[r].cid))
                 = CountOf("AIMessage", req[r].stored_messages) + 1

\* C7: after any turn, error turns and turns in terminal stages included,
\* the transcript stored before the turn is a prefix of the transcript
\* stored after it.
C7_TranscriptAppendOnly ==
    \A r \in Reqs :
        Finished(r) => IsPrefix(req[r].stored_messages, StoredMessages(req[r].cid))

\* an error turn on a session that already had a transcript
C7_Witness ==
    /\ Finished("r1")
    /\ req["r1"].raised
    /\ Len(req["r1"].stored_messages) >= 2
    /\ Len(StoredMessages("c1")) > Len(req["r1"].stored_messages)

\* C8: when two turns of the same conversation have both finished, the
\* stored transcript holds the caller messages of both: at least two more
\* than the transcript the earlier of them started from.
C8_ConcurrentTurnsSerialized ==
    \A r1 \in Reqs, r2 \in Reqs :
        /\ r1 # r2
        /\ Finished(r1) /\ Finished(r2)
        /\ req[r1].cid = req[r2].cid
        /\ req[r1].turn < req[r2].turn
        => CountOf("HumanMessage", StoredMessages(req[r1].cid))
             >= CountOf("HumanMessage", req[r1].stored_messages) + 2

\* C9: a step of a turn for one conversation leaves the stored state of
\* every other conversation unchanged, whatever turns are in flight.
C9_OtherConversationsUntouched ==
    [][\A r \in Reqs :
          req'[r] # req[r] =>
              \A c \in ConvIds \ {req'[r].cid} : store'[c] = store[c]]_vars

\* a turn for c1 that began and finished while a turn for c2 was in flight
C9_Witness ==
    /\ Finished("r1") /\ req["r1"].cid = "c1"
    /\ req["r2"].pc = "loaded" /\ req["r2"].cid = "c2"
    /\ req["r2"].turn < req["r1"].turn
    /\ store["c2"] # <<>>
    /\ Len(StoredMessages("c1")) >= 2

Apology == "apology"

\* the text fields a diagnostic could be written to
DiagnosticFields == {"error", "decision_reason"}

\* C10: when the handler of a turn raises, the stage is forced to ERROR, a
\* diagnostic and the stage the turn started in are recorded in the session,
\* and an apology is appended to the transcript and returned.
C10_ErrorTurnRecordedAndAnswered ==
    \A r \in Reqs :
        Finished(r) /\ req[r].raised =>
            /\ req[r].result.stage = ERROR
            /\ req[r].result.error # NoneStr
            /\ \E f \in DiagnosticFields :
                   req[r].result[f] \in {req[r].state.stage,
                                         StageValue[req[r].state.stage]}
            /\ Len(req[r].result.messages) = Len(req[r].state.messages) + 1
            /\ req[r].result.messages[Len(req[r].result.messages)].type = "AIMessage"
            /\ req[r].result.messages[Len(req[r].result.messages)].content = Apology
            /\ req[r].response = Apology

\* C11: when the handler of a turn raises, the session stored for the turn
\* is the session the turn started with, caller message appended, in every
\* field except stage and error: nothing the handler did is kept.
C11_RaisedTurnKeepsStartState ==
    \A r \in Reqs :
        Finished(r) /\ req[r].raised =>
            LET saved == get_state(store, req[r].cid)[1]
            IN  \A f \in (DOMAIN req[r].state) \ {"stage", "error"} :
                    saved[f] = req[r].state[f]

\* underwriting raised on a session that verification had filled in
C11_Witness ==
    /\ Finished("r1")
    /\ req["r1"].raised
    /\ req["r1"].handlers = <<"underwriting">>
    /\ req["r1"].state.credit_score # NoneInt
    /\ store["c1"][1].stage = StageValue[ERROR]
    /\ store["c1"][1].error = "TypeError"

(***************************************************************************)
(* Negotiation turns (SpecNeg).                                            *)
(***************************************************************************)
\* a finished turn that started at RATE_NEGOTIATION
NegotiationTurn(r) == Finished(r) /\ req[r].state.stage = RATE_NEGOTIATION

\* the caller's intent as the specification classifies it
AcceptIntent(r) ==
    Features[req[r].message].accept_kw /\ ~Features[req[r].message].negotiate_kw

NegotiateIntent(r) ==
    Features[req[r].message].negotiate_kw /\ ~Features[req[r].message].accept_kw

RepromptIntent(r) ==
    Features[req[r].message].accept_kw = Features[req[r].message].negotiate_kw

\* rate, EMI and attempt counter after the turn are those before it
OfferUnchanged(r) ==
    /\ req[r].result.final_interest_rate = req[r].state.final_interest_rate
    /\ req[r].result.emi = req[r].state.emi
    /\ req[r].result.rate_negotiation_attempts = req[r].state.rate_negotiation_attempts

\* the reduction of one negotiation step, in hundredths of a percent
Tier(credit_score) ==
    IF credit_score >= 800 THEN 50 ELSE IF credit_score >= 750 THEN 35 ELSE 25

\* C12: over any sequence of turns the negotiation attempt counter never
\* decreases and stays within 0..2, in the turn's result and in the store.
C12_AttemptsMonotoneAndCapped ==
    /\ \A st \in SessionStates : st.rate_negotiation_attempts \in 0..2
    /\ \A r \in Reqs :
           Finished(r) =>
               /\ req[r].result.rate_negotiation_attempts
                     >= req[r].state.rate_negotiation_attempts
               /\ store[req[r].cid][1].rate_negotiation_attempts
                     >= req[r].state.rate_negotiation_attempts

\* a negotiate request answered by the handler with both attempts used
C12_Witness ==
    /\ NegotiationTurn("r1")
    /\ NegotiateIntent("r1")
    /\ req["r1"].handlers = <<"negotiation">>
    /\ ~req["r1"].raised
    /\ req["r1"].state.rate_negotiation_attempts = 2
    /\ req["r1"].result.rate_negotiation_attempts = 2

\* C13: negotiate turns from 12.0% with credit score 810 give 11.5%, then
\* 11.0%; once two attempts are used every further negotiate turn leaves
\* the rate, the EMI and the counter (2) unchanged and keeps the stage at
\* RATE_NEGOTIATION.
C13_RatesAfterTwoNegotiations ==
    \A r \in Reqs :
        NegotiationTurn(r) /\ NegotiateIntent(r) =>
            /\ req[r].state.rate_negotiation_attempts = 2 =>
                   OfferUnchanged(r) /\ req[r].result.stage = RATE_NEGOTIATION
            /\ /\ req[r].state.credit_score = 810
               /\ req[r].state.final_interest_rate = 1200
               /\ req[r].state.rate_negotiation_attempts = 0
               => req[r].result.final_interest_rate = 1150
            /\ /\ req[r].state.credit_score = 810
               /\ req[r].state.final_interest_rate = 1150
               /\ req[r].state.rate_negotiation_attempts = 1
               => req[r].result.final_interest_rate = 1100

\* C14: a negotiate turn with fewer than two attempts used sets the final
\* rate to max(rate - tier, 8.0%), recomputes the EMI at that rate, adds one
\* to the attempt counter and keeps the stage at RATE_NEGOTIATION; the rate
\* does not go up.
C14_NegotiateReducesRate ==
    \A r \in Reqs :
        /\ NegotiationTurn(r) /\ NegotiateIntent(r)
        /\ req[r].state.rate_negotiation_attempts < 2
        => LET before == req[r].state
               after == req[r].result
               new_rate == Max2(before.final_interest_rate - Tier(before.credit_score), 800)
           IN  /\ after.final_interest_rate = new_rate
               /\ after.final_interest_rate <= before.final_interest_rate
               /\ after.emi = calculate_emi(before.approved_amount, new_rate,
                                            before.tenure_months)
               /\ after.rate_negotiation_attempts = before.rate_negotiation_attempts + 1
               /\ after.stage = RATE_NEGOTIATION

\* C15: an accept turn at RATE_NEGOTIATION, whatever the number of attempts
\* used, moves the stage to SANCTION_LETTER and leaves the final rate, the
\* EMI and the attempt counter as they were.
C15_AcceptLocksRate ==
    \A r \in Reqs :
        NegotiationTurn(r) /\ AcceptIntent(r) =>
            /\ req[r].result.stage = SANCTION_LETTER
            /\ OfferUnchanged(r)
            /\ store[req[r].cid][1].stage = StageValue[SANCTION_LETTER]
            /\ store[req[r].cid][1].final_interest_rate = req[r].state.final_interest_rate

\* an offer accepted after both attempts were used
C15_Witness ==
    /\ NegotiationTurn("r1")
    /\ AcceptIntent("r1")
    /\ req["r1"].state.rate_negotiation_attempts = 2
    /\ req["r1"].state.final_interest_rate = 1150
    /\ req["r1"].result.stage = SANCTION_LETTER
    /\ req["r1"].result.final_interest_rate = 1150

\* C16: at RATE_NEGOTIATION a message that matches both keyword sets, or
\* neither, is answered by the re-prompt: stage, final rate, EMI and attempt
\* counter are unchanged by the turn.
C16_AmbiguousInputReprompts ==
    \A r \in Reqs :
        NegotiationTurn(r) /\ RepromptIntent(r) =>
            /\ req[r].result.stage = RATE_NEGOTIATION
            /\ OfferUnchanged(r)

(***************************************************************************)
(* Underwriting decisions (SpecUW).  uw.response is what the engine        *)
(* returned for uw.request, uw.result what _evaluate_application returned. *)
(***************************************************************************)
UWDecided == uw.pc = "decided"

Has(flags, flag) == \E i \in 1..Len(flags) : flags[i] = flag

AboveThreshold == uw.request.credit_score >= credit_score_threshold

\* C17: a credit score under the configured threshold is REJECTED with the
\* flag LOW_CREDIT_SCORE and no approved amount, by the engine and by the
\* chat flow, whatever the amount, the limit and the income are.
C17_HardFloorFirst ==
    UWDecided /\ uw.request.credit_score < credit_score_threshold =>
        /\ uw.response.decision = "REJECTED"
        /\ Has(uw.response.risk_flags, "LOW_CREDIT_SCORE")
        /\ uw.response.approved_amount = NoneInt
        /\ uw.result.decision = "REJECTED"
        /\ Has(uw.result.risk_flags, "LOW_CREDIT_SCORE")
        /\ uw.result.approved_amount = NoneInt

\* a score of 699 rejected although the amount is within the limit and
\* the income is verified
C17_Witness ==
    /\ UWDecided
    /\ uw.request.credit_score = 699
    /\ uw.request.requested_amount = 100000
    /\ uw.request.pre_approved_limit = 200000
    /\ uw.request.monthly_salary = 60000
    /\ uw.salary_verified
    /\ uw.response.decision = "REJECTED"
    /\ uw.result.decision = "REJECTED"

\* C18: with a credit score at or above the threshold and a requested
\* amount up to the pre-approved limit, the engine and the chat flow both
\* approve the full requested amount, whatever the income is.
C18_AutoApproveBand ==
    /\ UWDecided /\ AboveThreshold
    /\ uw.request.requested_amount <= uw.request.pre_approved_limit
    => /\ uw.response.decision = "APPROVED"
       /\ uw.response.approved_amount = uw.request.requested_amount
       /\ uw.result.decision = "APPROVED"
       /\ uw.result.approved_amount = uw.request.requested_amount

\* C19: with a credit score at or above the threshold, exactly twice the
\* pre-approved limit is not rejected by the ceiling rule, and anything above
\* twice the limit is REJECTED with the flag EXCEEDS_MAX_LIMIT, whatever the
\* income is.
C19_HardCeilingBoundary ==
    UWDecided /\ AboveThreshold =>
        /\ uw.request.requested_amount = 2 * uw.request.pre_approved_limit =>
               /\ uw.response.decision # "REJECTED"
               /\ ~Has(uw.response.risk_flags, "EXCEEDS_MAX_LIMIT")
               /\ uw.result.decision # "REJECTED"
               /\ ~Has(uw.result.risk_flags, "EXCEEDS_MAX_LIMIT")
        /\ uw.request.requested_amount > 2 * uw.request.pre_approved_limit =>
               /\ uw.response.decision = "REJECTED"
               /\ Has(uw.response.risk_flags, "EXCEEDS_MAX_LIMIT")
               /\ uw.response.approved_amount = NoneInt
               /\ uw.result.decision = "REJECTED"
               /\ Has(uw.result.risk_flags, "EXCEEDS_MAX_LIMIT")
               /\ uw.result.approved_amount = NoneInt

\* one more than twice the limit, with a verified income that could carry it
C19_Witness ==
    /\ UWDecided /\ AboveThreshold
    /\ uw.request.requested_amount = 400001
    /\ uw.request.pre_approved_limit = 200000
    /\ uw.request.monthly_salary = 60000
    /\ uw.salary_verified
    /\ uw.response.decision = "REJECTED"
    /\ Has(uw.result.risk_flags, "EXCEEDS_MAX_LIMIT")

\* C20: with a credit score at or above the threshold and a requested
\* amount above the limit but not above twice the limit, an unverified or
\* zero income gives MANUAL_REVIEW with the flag SALARY_NOT_VERIFIED and no
\* approved amount.
C20_VerificationGate ==
    /\ UWDecided /\ AboveThreshold
    /\ uw.request.requested_amount > uw.request.pre_approved_limit
    /\ uw.request.requested_amount <= 2 * uw.request.pre_approved_limit
    /\ (~uw.salary_verified \/ uw.request.monthly_salary = 0)
    => /\ uw.response.decision = "MANUAL_REVIEW"
       /\ Has(uw.response.risk_flags, "SALARY_NOT_VERIFIED")
       /\ uw.response.approved_amount = NoneInt
       /\ uw.result.decision = "MANUAL_REVIEW"
       /\ Has(uw.result.risk_flags, "SALARY_NOT_VERIFIED")
       /\ uw.result.approved_amount = NoneInt

\* the requested amount is above the limit but not above twice the limit
Band2 ==
    /\ uw.request.requested_amount > uw.request.pre_approved_limit
    /\ uw.request.requested_amount <= 2 * uw.request.pre_approved_limit

VerifiedIncome == uw.salary_verified /\ uw.request.monthly_salary > 0

\* the EMI of the requested amount at the computed rate
RequestedEmi ==
    calculate_emi(uw.request.requested_amount,
                  calculate_interest_rate(uw.request.credit_score, default_interest_rate),
                  uw.request.tenure_months)

\* the EMI alone is already more than maxEmiRatio of the income
EmiAloneExceedsRatio ==
    RequestedEmi * 100 > max_emi_to_salary_ratio * uw.request.monthly_salary

\* the EMI together with the existing obligations is within maxEmiRatio
RatioWithin ==
    (RequestedEmi + uw.request.existing_emi) * 100
        <= max_emi_to_salary_ratio * uw.request.monthly_salary

\* approved at a reduced amount of at least half the request, or rejected,
\* with the flag HIGH_EMI_RATIO either way
AffordabilityOutcome(decision, approved_amount, risk_flags) ==
    /\ Has(risk_flags, "HIGH_EMI_RATIO")
    /\ \/ decision = "REJECTED" /\ approved_amount = NoneInt
       \/ /\ decision = "APPROVED"
          /\ approved_amount < uw.request.requested_amount
          /\ 2 * approved_amount >= uw.request.requested_amount

\* C21: once the floor, the ceiling and the verification gate are passed, an
\* EMI-to-income ratio above maxEmiRatio ends in an approval at the reduced
\* amount maxPrincipal with flag HIGH_EMI_RATIO when that amount is at least
\* half the request and in a rejection with flag HIGH_EMI_RATIO otherwise, so
\* no approval is ever for less than half the request; by the engine and by
\* the chat flow.
C21_AffordabilityHalfRule ==
    UWDecided /\ AboveThreshold /\ Band2 /\ VerifiedIncome /\ EmiAloneExceedsRatio =>
        /\ AffordabilityOutcome(uw.result.decision, uw.result.approved_amount,
                                uw.result.risk_flags)
        /\ AffordabilityOutcome(uw.response.decision, uw.response.approved_amount,
                                uw.response.risk_flags)

\* C22: with a credit score at or above the threshold, a verified non-zero
\* income and an EMI-to-income ratio within maxEmiRatio, a requested amount
\* above the limit and up to twice the limit is APPROVED at the full
\* requested amount by the engine and by the chat flow.
C22_Band2Approval ==
    UWDecided /\ AboveThreshold /\ Band2 /\ VerifiedIncome /\ RatioWithin =>
        /\ uw.response.decision = "APPROVED"
        /\ uw.response.approved_amount = uw.request.requested_amount
        /\ uw.result.decision = "APPROVED"
        /\ uw.result.approved_amount = uw.request.requested_amount

(***************************************************************************)
(* Scheme turns (SpecScheme).                                              *)
(***************************************************************************)
\* the turn r has finished began at SCHEME_RECOMMENDATION with stored offers
SelectionTurn(r) ==
    /\ Finished(r)
    /\ req[r].state.stage = SCHEME_RECOMMENDATION
    /\ req[r].state.scheme_recommendations # <<>>

\* the caller message of r is an ordinal that names a stored offer
NamesOffer(r) ==
    Features[req[r].message].ordinal \in 1..Len(req[r].state.scheme_recommendations)

RepliesAppended(r) == Len(req[r].result.messages) - Len(req[r].state.messages)

\* C23: at SCHEME_RECOMMENDATION with a stored offer list, an ordinal that
\* names an existing offer stores that offer as selected_scheme and moves the
\* stage to RATE_NEGOTIATION; an ordinal beyond the list or any other input
\* re-prompts with one reply and leaves stage, selected_scheme, offer list,
\* rate and EMI as they were.  No other turn changes selected_scheme.
C23_SchemeSelection ==
    \A r \in Reqs :
        /\ SelectionTurn(r) /\ NamesOffer(r) =>
              /\ req[r].result.selected_scheme =
                     <<req[r].state.scheme_recommendations[Features[req[r].message].ordinal]>>
              /\ req[r].result.stage = RATE_NEGOTIATION
        /\ SelectionTurn(r) /\ ~NamesOffer(r) =>
              /\ req[r].result.stage = SCHEME_RECOMMENDATION
              /\ req[r].result.selected_scheme = req[r].state.selected_scheme
              /\ req[r].result.scheme_recommendations = req[r].state.scheme_recommendations
              /\ req[r].result.final_interest_rate = req[r].state.final_interest_rate
              /\ req[r].result.emi = req[r].state.emi
              /\ RepliesAppended(r) = 1
        /\ Finished(r) /\ req[r].result.selected_scheme # req[r].state.selected_scheme =>
              SelectionTurn(r) /\ NamesOffer(r)

\* the second of two stored offers has been selected
C23_Witness ==
    /\ SelectionTurn("r1")
    /\ Len(req["r1"].state.scheme_recommendations) = 2
    /\ req["r1"].message = "two"
    /\ req["r1"].result.stage = RATE_NEGOTIATION
    /\ req["r1"].result.selected_scheme = <<req["r1"].state.scheme_recommendations[2]>>
    /\ get_state(store, "c1")[1].selected_scheme = req["r1"].result.selected_scheme

\* a third offer asked for when two are stored
C23_WitnessBeyond ==
    /\ SelectionTurn("r1")
    /\ Len(req["r1"].state.scheme_recommendations) = 2
    /\ req["r1"].message = "three"
    /\ req["r1"].result.stage = SCHEME_RECOMMENDATION

\* the session of conversation c1 as stored
Stored == _deserialize_state(store["c1"][1])

\* scheme k of the catalog is active and none of its bounds is violated by
\* the profile of session s (a salaried customer aged 30)
Eligible(k, s) ==
    /\ LOAN_SCHEMES[k].is_active
    /\ s.credit_score >= LOAN_SCHEMES[k].min_credit_score
    /\ s.loan_amount >= LOAN_SCHEMES[k].min_loan_amount
    /\ s.loan_amount <= LOAN_SCHEMES[k].max_loan_amount
    /\ s.tenure_months >= LOAN_SCHEMES[k].min_tenure_months
    /\ s.tenure_months <= LOAN_SCHEMES[k].max_tenure_months
    /\ s.monthly_salary >= LOAN_SCHEMES[k].min_monthly_income
    /\ 30 >= LOAN_SCHEMES[k].min_age /\ 30 <= LOAN_SCHEMES[k].max_age
    /\ "salaried" \in LOAN_SCHEMES[k].eligible_employment

EligibleSchemes(s) == {k \in 1..Len(LOAN_SCHEMES) : Eligible(k, s)}

\* the weighted score of scheme k for the profile of session s
ScoreOf(k, s) ==
    SchemeRecommendation(LOAN_SCHEMES[k], s.loan_amount, s.tenure_months,
                         s.credit_score, s.monthly_salary, s.loan_purpose).score

\* the catalog positions of the offers of a list
Positions(recs) ==
    [i \in 1..Len(recs) |->
        CHOOSE k \in 0..Len(LOAN_SCHEMES) :
            IF \E j \in 1..Len(LOAN_SCHEMES) : LOAN_SCHEMES[j].scheme_id = recs[i].scheme_id
            THEN k > 0 /\ LOAN_SCHEMES[k].scheme_id = recs[i].scheme_id
            ELSE k = 0]

RankedTop3(recs, pos, s) ==
    /\ Len(recs) \in 1..3
    /\ \A i \in 1..Len(recs) :
          /\ pos[i] \in EligibleSchemes(s)
          /\ recs[i].score = ScoreOf(pos[i], s)
    /\ \A i, j \in 1..Len(recs) :
          i < j => \/ recs[i].score > recs[j].score
                   \/ recs[i].score = recs[j].score /\ pos[i] < pos[j]
    \* the last offer has the least score of the list
    /\ \A k \in EligibleSchemes(s) :
          (\A i \in 1..Len(recs) : pos[i] # k) =>
              ScoreOf(k, s) <= recs[Len(recs)].score

\* C24: whenever scheme_recommendations is set it holds between 1 and 3
\* offers, each an eligible catalog scheme with its weighted score, in
\* non-increasing score order with equal scores in catalog order, and no
\* eligible scheme that was left out scores higher than a retained one.
C24_RankedOffers ==
    store["c1"] # <<>> /\ Stored.scheme_recommendations # <<>> =>
        RankedTop3(Stored.scheme_recommendations,
                   Positions(Stored.scheme_recommendations), Stored)

\* three offers kept of more than three eligible schemes, the second and the
\* third with equal scores
C24_Witness ==
    /\ store["c1"] # <<>>
    /\ Len(Stored.scheme_recommendations) = 3
    /\ Cardinality(EligibleSchemes(Stored)) > 3
    /\ Stored.scheme_recommendations[2].score = Stored.scheme_recommendations[3].score
    /\ Stored.scheme_recommendations[2].scheme_id = "IDFC_DIGITAL_01"
    /\ Stored.scheme_recommendations[3].scheme_id = "INDUS_FLEX_01"

\* the turn r has finished was given to the scheme handler for a ranking
RankingTurn(r) ==
    /\ Finished(r)
    /\ req[r].handlers = <<"scheme">>
    /\ req[r].state.scheme_recommendations = <<>>

\* amount, tenure, credit score and income are on the session
HasProfile(s) ==
    /\ s.loan_amount # NoneInt /\ s.tenure_months # NoneInt
    /\ s.credit_score # NoneInt /\ s.monthly_salary # NoneInt

SalesTurn(r) == Finished(r) /\ req[r].handlers = <<"sales">>

AmountSet(s) == s.loan_amount # NoneInt /\ s.loan_amount # 0

BasicsSet(s) ==
    s.customer_name # NoneStr /\ s.customer_phone # NoneStr /\ AmountSet(s)

\* C26: after a Sales turn the stage is KYC_VERIFICATION only if customer
\* name, phone and loan amount are all set; when they are not all set it is
\* COLLECTING_DETAILS if the amount is set, and without an amount it is
\* NEED_ANALYSIS, or GREETING after a greeting without a loan keyword.
C26_SalesReasksUntilComplete ==
    \A r \in Reqs :
        SalesTurn(r) =>
            /\ req[r].result.stage = KYC_VERIFICATION => BasicsSet(req[r].result)
            /\ ~BasicsSet(req[r].result) /\ AmountSet(req[r].result) =>
                   req[r].result.stage = COLLECTING_DETAILS
            /\ ~AmountSet(req[r].result) =>
                   \/ req[r].result.stage = NEED_ANALYSIS
                   \/ /\ req[r].result.stage = GREETING
                      /\ req[r].state.stage = GREETING
                      /\ ~Features[req[r].message].loan_kw

\* an amount without name and phone: the turn stays with Sales
C26_Witness ==
    /\ SalesTurn("r1")
    /\ req["r1"].message = "loan"
    /\ AmountSet(req["r1"].result)
    /\ req["r1"].result.customer_name = NoneStr
    /\ req["r1"].result.stage = COLLECTING_DETAILS

VerificationOrLater ==
    {KYC_VERIFICATION, OTP_VERIFICATION, CREDIT_CHECK, SALARY_UPLOAD, UNDERWRITING,
     DECISION, SCHEME_RECOMMENDATION, RATE_NEGOTIATION, SANCTION_LETTER, COMPLETED}

\* C27: every session whose stage is KYC_VERIFICATION or a later stage of
\* the application has its application_id set, and a turn that starts with an
\* application_id ends with the same one.
C27_ApplicationIdFromVerification ==
    /\ \A c \in ConvIds :
          store[c] # <<>> /\ _deserialize_state(store[c][1]).stage \in VerificationOrLater =>
              store[c][1].application_id # NoneInt
    /\ \A r \in Reqs :
          Finished(r) /\ req[r].state.application_id # NoneInt =>
              req[r].result.application_id = req[r].state.application_id

\* the fields other than the transcript agree, and the transcript has the
\* same speaker tags and texts in the same order
SameSession(a, b) ==
    /\ \A f \in DataFields \cup {"updated_at"} : a[f] = b[f]
    /\ Len(a.messages) = Len(b.messages)
    /\ \A i \in 1..Len(a.messages) :
          /\ a.messages[i].type = b.messages[i].type
          /\ a.messages[i].content = b.messages[i].content

\* C28: every session a turn loads or saves is read back from its stored
\* form with every field as it was, the stage being stored as its string
\* value and the transcript keeping its order and its speaker tags.
C28_SerializationRoundTrips ==
    \A r \in Reqs :
        req[r].pc # "idle" =>
            /\ SameSession(_deserialize_state(_serialize_state(req[r].state)), req[r].state)
            /\ SameSession(_deserialize_state(_serialize_state(req[r].result)), req[r].result)
            /\ _serialize_state(req[r].result).stage = StageValue[req[r].result.stage]

\* a saved session past the greeting, with caller and system messages
C28_Witness ==
    /\ Finished("r1")
    /\ req["r1"].result.stage = OTP_VERIFICATION
    /\ store[req["r1"].cid][1].stage = "otp_verification"
    /\ Len(req["r1"].result.messages) >= 4
    /\ req["r1"].result.messages[1].type = "HumanMessage"
    /\ req["r1"].result.messages[2].type = "AIMessage"
    /\ SameSession(_deserialize_state(store[req["r1"].cid][1]), req["r1"].result)

(***************************************************************************)
(* OTP turns (SpecOtp).                                                    *)
(***************************************************************************)
OtpTurn(r) == Finished(r) /\ req[r].state.stage = OTP_VERIFICATION

\* the digits of the caller message are six, or it holds a confirmation
\* keyword
OtpAccepted(r) ==
    \/ Len(Features[req[r].message].digits) = 6
    \/ Features[req[r].message].otp_kw

\* C30: at OTP_VERIFICATION a message whose digits are exactly six, equal to
\* the stored code or not, or that holds a confirmation keyword sets
\* otp_verified and kyc_verified and moves the stage to CREDIT_CHECK; any
\* other message keeps the stage at OTP_VERIFICATION and leaves otp_verified,
\* kyc_verified and the stored code as they were.
C30_OtpAcceptance ==
    \A r \in Reqs :
        /\ OtpTurn(r) /\ OtpAccepted(r) =>
              /\ req[r].result.otp_verified
              /\ req[r].result.kyc_verified
              /\ req[r].result.stage = CREDIT_CHECK
        /\ OtpTurn(r) /\ ~OtpAccepted(r) =>
              /\ req[r].result.stage = OTP_VERIFICATION
              /\ req[r].result.otp_verified = req[r].state.otp_verified
              /\ req[r].result.kyc_verified = req[r].state.kyc_verified
              /\ req[r].result.otp_code = req[r].state.otp_code

\* six digits that are not the stored code are accepted
C30_Witness ==
    /\ OtpTurn("r1")
    /\ req["r1"].message = "otp6"
    /\ req["r1"].state.otp_code = "482913"
    /\ ~req["r1"].state.kyc_verified
    /\ req["r1"].result.otp_verified
    /\ req["r1"].result.kyc_verified
    /\ req["r1"].result.stage = CREDIT_CHECK
    /\ Stored.stage = CREDIT_CHECK

\* four digits are not: the code is asked for again
C30_WitnessRetry ==
    /\ OtpTurn("r1")
    /\ req["r1"].message = "pan"
    /\ req["r1"].result.stage = OTP_VERIFICATION
    /\ ~req["r1"].result.otp_verified

(***************************************************************************)
(* EMI calculations (SpecEmi).  calc.emi is the EMI of calc.principal,     *)
(* calc.larger_emi the EMI of the larger principal calc.larger.            *)
(***************************************************************************)
Calculated == calc.pc = "done"

\* C29: for a fixed rate and tenure the EMI of the smaller principal is
\* strictly less than the EMI of the larger one, in the zero-rate branch too.
C29_EmiStrictlyMonotonic ==
    Calculated => calc.emi < calc.larger_emi

\* C29, as the code has it: the EMI of the smaller principal is never more
\* than the EMI of the larger one, and it is strictly less when the
\* principals differ by at least the number of months.
C29_EmiMonotonic ==
    Calculated =>
        /\ calc.emi <= calc.larger_emi
        /\ calc.larger - calc.principal >= calc.months => calc.emi < calc.larger_emi

\* two principals one unit apart with the same EMI, at a non-zero rate
C29_Witness ==
    /\ Calculated
    /\ calc.annual_rate = 1250 /\ calc.months = 24
    /\ calc.principal = 100000 /\ calc.larger = 100001
    /\ calc.emi = 4730 /\ calc.larger_emi = 4730

\* and in the zero-rate branch
C29_WitnessZeroRate ==
    /\ Calculated
    /\ calc.annual_rate = 0 /\ calc.months = 24
    /\ calc.principal = 100000 /\ calc.larger = 100001
    /\ calc.emi = 4166 /\ calc.larger_emi = 4166

(***************************************************************************)
(* Identity before underwriting (Spec).                                    *)
(***************************************************************************)
GatedStages ==
    {CREDIT_CHECK, UNDERWRITING, DECISION, SCHEME_RECOMMENDATION, RATE_NEGOTIATION,
     SANCTION_LETTER, COMPLETED, REJECTED}

Identified(s) ==
    /\ s.kyc_verified /\ s.otp_verified
    /\ s.customer_pan # NoneStr
    /\ s.credit_score # NoneInt
    /\ s.pre_approved_limit # NoneInt

\* the turn of r entered the stage: it ended there and did not start there
Entered(r, stage) ==
    /\ Finished(r)
    /\ req[r].result.stage = stage
    /\ req[r].state.stage # stage

\* C31: a session at CREDIT_CHECK or any later stage of the application
\* (REJECTED included) is KYC- and OTP-verified and has a PAN, a credit score
\* and a pre-approved limit; the OTP stage is entered only by a turn that gave
\* a PAN, and the credit check only from the OTP stage.
C31_IdentityBeforeUnderwriting ==
    /\ \A c \in ConvIds :
          (store[c] # <<>> /\ _deserialize_state(store[c][1]).stage \in GatedStages)
              => Identified(_deserialize_state(store[c][1]))
    /\ \A r \in Reqs :
          /\ (req[r].pc # "idle" /\ req[r].state.stage \in GatedStages)
                => Identified(req[r].state)
          /\ (req[r].pc # "idle" /\ req[r].result.stage \in GatedStages)
                => Identified(req[r].result)
          /\ Entered(r, OTP_VERIFICATION)
                => /\ req[r].state.stage = KYC_VERIFICATION
                   /\ _extract_pan(req[r].message) # NoneStr
                   /\ req[r].result.customer_pan = _extract_pan(req[r].message)
                   /\ ~req[r].result.otp_verified
          /\ Entered(r, CREDIT_CHECK)
                => /\ req[r].state.stage = OTP_VERIFICATION
                   /\ req[r].state.customer_pan # NoneStr

\* an underwriting decision has been made for an identified session
C31_Witness ==
    /\ Finished("r1")
    /\ req["r1"].handlers = <<"underwriting">>
    /\ req["r1"].result.decision = "APPROVED"
    /\ req["r1"].result.stage = DECISION
    /\ Identified(req["r1"].result)

(***************************************************************************)
(* The scheme turn of an approved application (Spec).                      *)
(***************************************************************************)
\* the turn of r started at DECISION with an approved application
ApprovedDecisionTurn(r) ==
    /\ Finished(r)
    /\ req[r].state.stage = DECISION
    /\ req[r].state.decision = "APPROVED"

\* C32: a turn that starts at DECISION with decision APPROVED ends at
\* SCHEME_RECOMMENDATION with one to three stored offers or at REJECTED: the
\* scheme handler does not raise and the turn does not end at ERROR.
C32_SchemeTurnAfterApproval ==
    \A r \in Reqs :
        ApprovedDecisionTurn(r) =>
            /\ ~req[r].raised
            /\ req[r].result.stage # ERROR
            /\ \/ /\ req[r].result.stage = SCHEME_RECOMMENDATION
                  /\ Len(req[r].result.scheme_recommendations) \in 1..3
               \/ req[r].result.stage = REJECTED

(***************************************************************************)
(* The cooperative applicant (SpecCoop).                                   *)
(***************************************************************************)
\* the stored session has a credit score at or above the threshold and asks
\* for no more than its pre-approved limit
Qualifies(c) ==
    /\ store[c] # <<>>
    /\ _deserialize_state(store[c][1]).credit_score # NoneInt
    /\ _deserialize_state(store[c][1]).credit_score >= credit_score_threshold
    /\ _deserialize_state(store[c][1]).loan_amount # NoneInt
    /\ _deserialize_state(store[c][1]).pre_approved_limit # NoneInt
    /\ _deserialize_state(store[c][1]).loan_amount
          <= _deserialize_state(store[c][1]).pre_approved_limit

Sanctioned(c) ==
    /\ store[c] # <<>>
    /\ _deserialize_state(store[c][1]).stage = COMPLETED
    /\ _deserialize_state(store[c][1]).sanction_id # NoneInt

\* C33: an applicant whose credit score is at least the threshold and whose
\* amount is within the pre-approved limit, and who answers every request,
\* picks an offered scheme and accepts, eventually has a session at COMPLETED
\* with a sanction id.
C33_CooperativeApplicantCompletes ==
    Qualifies("c1") ~> Sanctioned("c1")

(***************************************************************************)
(* Manual review (Spec).                                                   *)
(***************************************************************************)
\* what underwriting_agent hands to _evaluate_application
UnderwritingInputs(s) ==
    <<s.loan_amount, s.tenure_months, s.credit_score, s.pre_approved_limit,
      s.monthly_salary, s.salary_verified>>

InManualReview(s) == s.decision = "MANUAL_REVIEW"

\* the turn of r started in a session that an earlier turn left in manual review
ManualReviewTurn(r) == Finished(r) /\ InManualReview(req[r].state)

\* C34: a session whose decision is MANUAL_REVIEW is at UNDERWRITING, and
\* every turn on it runs underwriting again on the same inputs and leaves the
\* decision at MANUAL_REVIEW and the stage at UNDERWRITING: it never gets to
\* SALARY_UPLOAD, DECISION or COMPLETED.
C34_ManualReviewIsAbsorbing ==
    /\ \A c \in ConvIds :
          (store[c] # <<>> /\ InManualReview(_deserialize_state(store[c][1])))
              => _deserialize_state(store[c][1]).stage = UNDERWRITING
    /\ \A r \in Reqs :
          /\ (req[r].pc # "idle" /\ InManualReview(req[r].result))
                => req[r].result.stage = UNDERWRITING
          /\ ManualReviewTurn(r)
                => /\ req[r].handlers = <<"underwriting">>
                   /\ ~req[r].raised
                   /\ UnderwritingInputs(req[r].result) = UnderwritingInputs(req[r].state)
                   /\ InManualReview(req[r].result)
                   /\ req[r].result.stage = UNDERWRITING
                   /\ req[r].result.stage \notin {SALARY_UPLOAD, DECISION, COMPLETED}

\* a later turn on a session in manual review has been answered
C34_Witness ==
    /\ ManualReviewTurn("r1")
    /\ req["r1"].state.stage = UNDERWRITING
    /\ req["r1"].result.stage = UNDERWRITING
    /\ InManualReview(req["r1"].result)
    /\ req["r1"].response = "uw_manual_review"

(***************************************************************************)
(* The sanction turn (SpecNeg).                                            *)
(***************************************************************************)
\* the turn of r ran the sanction handler, which issued the letter
SanctionIssued(r) ==
    /\ Finished(r)
    /\ req[r].handlers = <<"sanction">>
    /\ req[r].result.stage = COMPLETED

\* C35: the interest rate in the sanction reply and in the sanction data is
\* the final_interest_rate locked at accept, and the EMI reported with it is
\* the EMI of the sanctioned amount at that rate.
C35_SanctionReportsFinalRate ==
    \A r \in Reqs :
        SanctionIssued(r) =>
            /\ sanction_summary(req[r].state).interest_rate
                  = req[r].state.final_interest_rate
            /\ _generate_sanction_letter(req[r].state, req[r].turn).data.loan.interest_rate
                  = req[r].state.final_interest_rate
            /\ sanction_summary(req[r].state).emi
                  = calculate_emi(sanction_summary(req[r].state).approved_amount,
                                  sanction_summary(req[r].state).interest_rate,
                                  sanction_summary(req[r].state).tenure_months)

(***************************************************************************)
(* A sanction only for an approved loan (SpecSanction).                    *)
(***************************************************************************)
SanctionConsistent(s) ==
    /\ s.sanction_id # NoneInt <=> s.stage = COMPLETED
    /\ s.stage = COMPLETED => s.decision = "APPROVED"

\* the turn of r ran the sanction handler on a session that is not approved
UnapprovedSanctionTurn(r) ==
    /\ Finished(r)
    /\ req[r].handlers = <<"sanction">>
    /\ req[r].state.decision # "APPROVED"

\* C36: a session has a sanction id exactly when it is at COMPLETED, and a
\* session at COMPLETED is approved; a sanction turn on a session that is
\* not approved ends at ERROR with the error field set and no sanction id.
C36_SanctionOnlyWhenApproved ==
    /\ \A c \in ConvIds :
          store[c] # <<>> => SanctionConsistent(_deserialize_state(store[c][1]))
    /\ \A r \in Reqs :
          /\ req[r].pc # "idle" => SanctionConsistent(req[r].result)
          /\ UnapprovedSanctionTurn(r)
                => /\ req[r].result.stage = ERROR
                   /\ req[r].result.error # NoneStr
                   /\ req[r].result.sanction_id = NoneInt

\* a sanction turn has issued the letter of an approved loan
C36_Witness ==
    /\ Finished("r1")
    /\ req["r1"].handlers = <<"sanction">>
    /\ req["r1"].state.decision = "APPROVED"
    /\ req["r1"].result.stage = COMPLETED
    /\ req["r1"].result.sanction_id # NoneInt

\* a sanction turn has refused a loan that is not approved
C36_WitnessRefused ==
    /\ UnapprovedSanctionTurn("r1")
    /\ req["r1"].state.decision = "REJECTED"
    /\ req["r1"].result.stage = ERROR
    /\ req["r1"].result.error = "not_approved"
    /\ req["r1"].result.sanction_id = NoneInt

(***************************************************************************)
(* Negotiation on an approved, selected offer (SpecScheme).                *)
(***************************************************************************)
OfferSelected(s) ==
    /\ s.decision = "APPROVED"
    /\ s.selected_scheme # <<>>
    /\ s.final_interest_rate # NoneInt

AtOfferStage(s) == s.stage \in {RATE_NEGOTIATION, SANCTION_LETTER}

\* the handlers of the turn of r include the negotiation handler
NegotiationRan(r) ==
    Finished(r) /\ \E i \in 1..Len(req[r].handlers) : req[r].handlers[i] = "negotiation"

\* C37: a session at RATE_NEGOTIATION or SANCTION_LETTER is approved and has
\* a selected scheme and a final interest rate; the negotiation handler runs
\* only on a session at RATE_NEGOTIATION, never at DECISION, and no turn
\* lowers the attempt counter.
C37_NegotiationOnSelectedOffer ==
    /\ \A c \in ConvIds :
          (store[c] # <<>> /\ AtOfferStage(_deserialize_state(store[c][1])))
              => OfferSelected(_deserialize_state(store[c][1]))
    /\ \A r \in Reqs :
          /\ (req[r].pc # "idle" /\ AtOfferStage(req[r].state)) => OfferSelected(req[r].state)
          /\ (req[r].pc # "idle" /\ AtOfferStage(req[r].result)) => OfferSelected(req[r].result)
          /\ NegotiationRan(r) => /\ req[r].state.stage = RATE_NEGOTIATION
                                  /\ req[r].state.stage # DECISION
          /\ Finished(r) => req[r].result.rate_negotiation_attempts
                               >= req[r].state.rate_negotiation_attempts

\* the negotiation handler has accepted a selected offer
C37_Witness ==
    /\ NegotiationRan("r1")
    /\ req["r1"].state.stage = RATE_NEGOTIATION
    /\ req["r1"].result.stage = SANCTION_LETTER
    /\ OfferSelected(req["r1"].result)
    /\ req["r1"].result.final_interest_rate
          = req["r1"].result.selected_scheme[1].interest_rate

(***************************************************************************)
(* The engine and the chat flow's evaluation side by side (SpecUW).        *)
(***************************************************************************)
\* no existing obligations, and income counted as verified exactly when it
\* is positive
ComparableRequest ==
    /\ uw.request.existing_emi = 0
    /\ uw.salary_verified <=> uw.request.monthly_salary > 0

\* C38: for the same credit score, amount, tenure, limit and income, with no
\* existing obligations and income verified exactly when positive,
\* UnderwritingEngine.evaluate and _evaluate_application give the same
\* decision and the same approved amount.
C38_ImplementationsAgree ==
    UWDecided /\ ComparableRequest =>
        /\ ~uw.result.raised
        /\ uw.response.decision = uw.result.decision
        /\ uw.response.approved_amount = uw.result.approved_amount

====
